---- MODULE Spec2Model ----
(***************************************************************************)
(* Model of the scyllamigrate migration engine: the Source of versioned    *)
(* migration pairs, the history-table ledger on the cluster, and the       *)
(* planner/executor operations of Migrator (Up, UpTo, Down, DownTo, Steps, *)
(* Status, Version, Pending, Applied).  Every query sent to the cluster    *)
(* is one atomic step and may fail; the Go code that runs between two      *)
(* queries is folded into the step of the query that precedes it.          *)
(* The pure functions of the package (New, errors.Is over the wrapper      *)
(* errors, ParseMigration and IsMigrationFile) are modelled as operators   *)
(* and applied to bounded sets of arguments by specifications of their own.*)
(***************************************************************************)
EXTENDS Integers, Sequences, FiniteSets, TLC

\* ------------------------------------------------------------------ bounds
\* Highest migration version of the fixture sources.
MaxVersion == 3
\* Largest number of statements in one fixture migration file.
MaxStmts == 2
\* Width in bits of the modelled machine int (Go's int is 64 bits wide).
IntWidth == 3

Versions == 1..MaxVersion
Engines == {1, 2}

IntMin == -(2 ^ (IntWidth - 1))
IntMax == (2 ^ (IntWidth - 1)) - 1
Ints == IntMin..IntMax

\* n reduced to the machine int range (two's complement wrap-around).
WrapInt(n) == ((n - IntMin) % (2 ^ IntWidth)) + IntMin

\* Go's unary minus on int: -n, which overflows for the most negative value.
Neg(n) == WrapInt(-n)

VARIABLES
    source,       \* FSSource.migrations: version -> which halves exist
    wait,         \* Migrator.waitForSchemaAgreement
    tableExists,  \* the history table exists in the keyspace
    ledger,       \* versions that have a row in the history table
    history,      \* version -> the columns of its row in the history table
    schema,       \* version -> direction of the file whose statement ran last,
                  \* followed where operators race (left alone elsewhere)
    latency,      \* how long a query may take, in whole milliseconds
    active,       \* the engines (operator processes) that run
    eng,          \* per engine: position and locals of the running call
    faults,       \* the driver may report a query as failed
    call,         \* the arguments of a call of a pure function
    result        \* what that call returned

vars == <<source, wait, tableExists, ledger, history, schema, latency, active, eng,
          faults, call, result>>

\* No statement of any migration file was seen to run on the keyspace.
Untouched == [v \in Versions |-> ""]

\* What no engine step changes.
Config == <<source, wait, latency, active, faults, call, result>>

\* The outcomes of one query: it succeeds, or the driver reports an error
\* (timeout, unavailable, cancelled context).
Outcomes == IF faults THEN BOOLEAN ELSE {TRUE}

\* No pure function is being called.
NoCall == <<>>

\* ------------------------------------------------------------ pure helpers
SetMin(S) == CHOOSE x \in S : \A y \in S : x <= y

RECURSIVE Asc(_)
Asc(S) == IF S = {} THEN <<>> ELSE <<SetMin(S)>> \o Asc(S \ {SetMin(S)})

Range(s) == {s[i] : i \in 1..Len(s)}

\* Every order in which the database may return the rows of a set.
Perms(S) == {s \in [1..Cardinality(S) -> S] : Range(s) = S}

RECURSIVE InsertDesc(_, _)
InsertDesc(x, s) ==
    IF s = <<>> THEN <<x>>
    ELSE IF x > Head(s) THEN <<x>> \o s
    ELSE <<Head(s)>> \o InsertDesc(x, Tail(s))

RECURSIVE SortDescRec(_)
SortDescRec(s) == IF s = <<>> THEN <<>> ELSE InsertDesc(Head(s), SortDescRec(Tail(s)))

\* sort.Slice(applied, version descending)
SortDescMutNoSort(s) == s
SortDesc(s) == SortDescRec(s)

\* --------------------------------------------------------------- Source
Halves == {"none", "up", "down", "both"}

HasUpMutAnyHalf(v) == source[v] # "none"
HasUp(v) == source[v] \in {"up", "both"}
HasDown(v) == source[v] \in {"down", "both"}

\* FSSource.List: the pairs in ascending version order.
ListMutDescending == SortDescRec(Asc({v \in Versions : source[v] # "none"}))
List == Asc({v \in Versions : source[v] # "none"})

\* Number of statements parseStatements yields for the fixture file of
\* version v and direction d (0: empty or comment-only content).
NumStatements(v, d) ==
    IF d = "up" THEN v % (MaxStmts + 1) ELSE (v + 1) % (MaxStmts + 1)

\* ---------------------------------------------------- migration content
\* unicode.IsSpace for the characters that occur.
IsSpace(c) == c \in {" ", "\n", "\t", "\r"}

\* strings.Split(content, "\n"); cur is the piece being collected.
RECURSIVE SplitLines(_, _)
SplitLines(content, cur) ==
    IF content = <<>> THEN <<cur>>
    ELSE IF Head(content) = "\n" THEN <<cur>> \o SplitLines(Tail(content), <<>>)
    ELSE SplitLines(Tail(content), Append(cur, Head(content)))

RECURSIVE TrimLeft(_)
TrimLeft(t) == IF t # <<>> /\ IsSpace(Head(t)) THEN TrimLeft(Tail(t)) ELSE t

RECURSIVE TrimRight(_)
TrimRight(t) ==
    IF t # <<>> /\ IsSpace(t[Len(t)]) THEN TrimRight(SubSeq(t, 1, Len(t) - 1)) ELSE t

\* strings.TrimSpace
TrimSpace(t) == TrimRight(TrimLeft(t))

\* strings.HasPrefix, strings.HasSuffix, strings.TrimSuffix
HasPrefix(t, p) == Len(t) >= Len(p) /\ SubSeq(t, 1, Len(p)) = p
HasSuffix(t, p) == Len(t) >= Len(p) /\ SubSeq(t, Len(t) - Len(p) + 1, Len(t)) = p
TrimSuffix(t, p) == IF HasSuffix(t, p) THEN SubSeq(t, 1, Len(t) - Len(p)) ELSE t

\* parseStatements, at a line that ends with ';': the statement to append.
finishStatementMutNoTrim(current) == TrimSuffix(TrimSpace(current), <<";">>)
finishStatement(current) == TrimSpace(TrimSuffix(TrimSpace(current), <<";">>))

\* parseStatements, after the loop: what is left in the builder.
remainingMutNoTrim(current) == current
remaining(current) == TrimSpace(current)

\* parseStatements, the loop over the lines with the builder `current`.
RECURSIVE parseLines(_, _, _)
parseLines(lines, current, statements) ==
    IF lines = <<>>
    THEN IF remaining(current) # <<>> THEN Append(statements, remaining(current))
         ELSE statements
    ELSE LET line == Head(lines)
             trimmed == TrimSpace(line) IN
         IF trimmed = <<>> \/ HasPrefix(trimmed, <<"-", "-">>)
         THEN parseLines(Tail(lines), current, statements)
         ELSE LET written == current \o line \o <<"\n">> IN
              IF HasSuffix(trimmed, <<";">>)
              THEN parseLines(Tail(lines), <<>>,
                              IF finishStatement(written) # <<>>
                              THEN Append(statements, finishStatement(written))
                              ELSE statements)
              ELSE parseLines(Tail(lines), written, statements)

parseStatements(content) == parseLines(SplitLines(content, <<>>), <<>>, <<>>)

\* The statements joined again, each followed by ';' and a newline.
RECURSIVE JoinStatements(_)
JoinStatements(statements) ==
    IF statements = <<>> THEN <<>>
    ELSE Head(statements) \o <<";", "\n">> \o JoinStatements(Tail(statements))

\* md5.Size: the bytes of an MD5 digest.
Md5Size == 16

CharCode(c) ==
    CASE c = "a" -> 97 [] c = ";" -> 59 [] c = " " -> 32
      [] c = "\n" -> 10 [] c = "-" -> 45 [] OTHER -> 0

\* md5.Sum: Md5Size bytes that are a function of the content.  Which bytes
\* MD5 yields is left abstract: byte k stands in as a position-weighted
\* sum of the character codes.
RECURSIVE WeightedSum(_, _, _)
WeightedSum(content, i, k) ==
    IF i > Len(content) THEN k
    ELSE (CharCode(content[i]) * (i + k) + 3 * WeightedSum(content, i + 1, k)) % 256

md5Sum(content) == [k \in 1..Md5Size |-> WeightedSum(content, 1, k)]

HexDigits == <<"0", "1", "2", "3", "4", "5", "6", "7",
               "8", "9", "a", "b", "c", "d", "e", "f">>

\* hex.EncodeToString: two lowercase digits for every byte.
EncodeToString(bytes) ==
    [i \in 1..(2 * Len(bytes)) |->
        IF i % 2 = 1 THEN HexDigits[(bytes[(i + 1) \div 2] \div 16) + 1]
        ELSE HexDigits[(bytes[i \div 2] % 16) + 1]]

checksum(content) == EncodeToString(md5Sum(content))

\* The description of the pair of version v in the fixture Source.
Description(v) == [i \in 1..v |-> "d"]

\* The content of the fixture file of version v and direction d: a header
\* that no statement comes from (a comment line, a blank line or nothing),
\* then NumStatements(v, d) lines with one statement each.
Header(v) ==
    CASE v % 3 = 0 -> <<"-", "-", "\n">>
      [] v % 3 = 1 -> <<" ", "\n">>
      [] OTHER -> <<>>
RECURSIVE Repeat(_, _)
Repeat(t, n) == IF n = 0 THEN <<>> ELSE t \o Repeat(t, n - 1)
Content(v, d) ==
    Header(v) \o Repeat([i \in 1..v |-> "a"] \o <<";", "\n">>, NumStatements(v, d))

\* parseStatements over the contents the fixture Source holds, as a table.
Parsed ==
    [b \in {Content(v, d) : v \in Versions, d \in {"up", "down"}} |->
        parseStatements(b)]

\* checksum over the same contents, as a table.
Checksums == [b \in DOMAIN Parsed |-> checksum(b)]

\* getAppliedVersions: the set of versions among the rows read.
getAppliedVersions(rows) == Range(rows)

\* Migrator.Pending: the pairs of the Source that have no ledger row.
pendingMutNoFilter(rows) == List
pendingMutAboveCurrent(rows) ==
    SelectSeq(List, LAMBDA v : \A r \in Range(rows) : v > r)
pendingPairs(rows) ==
    SelectSeq(List, LAMBDA v : v \notin getAppliedVersions(rows))

\* for _, am := range applied { if am.Version > maxVersion { maxVersion = am.Version } }
RECURSIVE MaxVersionRec(_, _)
MaxVersionRec(rows, maxVersion) ==
    IF rows = <<>> THEN maxVersion
    ELSE MaxVersionRec(Tail(rows),
                       IF Head(rows) > maxVersion THEN Head(rows) ELSE maxVersion)

\* getLatestVersion: the maximum over the rows, 0 when there are none.
MaxVersionOfMutLast(rows) == IF rows = <<>> THEN 0 ELSE rows[Len(rows)]
MaxVersionOf(rows) == MaxVersionRec(rows, 0)

\* --------------------------------------------------------------- errors
NoErr == [kind |-> "nil", version |-> 0, dir |-> "", stmt |-> 0, inner |-> ""]
ErrNoChange == [kind |-> "ErrNoChange", version |-> 0, dir |-> "", stmt |-> 0, inner |-> ""]
MigrationError(v, d, i, inner) ==
    [kind |-> "MigrationError", version |-> v, dir |-> d, stmt |-> i, inner |-> inner]
\* fmt.Errorf("failed to ...: %w", err): a wrapped session error.
WrappedErr(what, v) ==
    [kind |-> "wrapped", version |-> v, dir |-> "", stmt |-> 0, inner |-> what]

NoRet == [n |-> 0, err |-> NoErr, ver |-> 0, list |-> <<>>, pending |-> <<>>]

Entry(q, v, d, i, ok) == [q |-> q, v |-> v, dir |-> d, i |-> i, ok |-> ok]

InitEng ==
    [pc |-> "idle", op |-> "none", arg |-> 0, plan |-> <<>>, limit |-> 0,
     idx |-> 0, cur |-> 0, dir |-> "", stmt |-> 0, count |-> 0, ret |-> NoRet,
     log |-> <<>>, ran |-> {}, start |-> {}, startTable |-> FALSE,
     faulted |-> FALSE, prevUpOk |-> FALSE, prevFail |-> NoErr,
     content |-> <<>>, elapsed |-> 0, sent |-> <<>>,
     cli |-> "", flag |-> 0, exit |-> 0]


\* ------------------------------------------------- control flow between queries
\* The statement st.stmt of the content was handed to the driver.
Submitted(st) ==
    [st EXCEPT !.sent = Append(@, [v |-> st.cur, text |-> Parsed[st.content][st.stmt]])]

\* time.Since(start) grows by the time the query took.
Timed(st, ms) == [st EXCEPT !.elapsed = @ + ms]

\* The engine record after the query `entry` was submitted.
Logged(st, entry) ==
    [st EXCEPT !.log = Append(@, entry), !.faulted = @ \/ ~entry.ok]

\* cmd/main.go: the error Run returns for the error of the engine operation
\* (down alone takes ErrNoChange for success), and main's os.Exit(1) for it.
cmdExit(cli, err) ==
    IF err = NoErr \/ (cli = "down" /\ err = ErrNoChange) THEN 0 ELSE 1

\* return from the public operation (Steps returns the error alone); when
\* the operation was called by a subcommand, the process exits.
Return(st, n, err) ==
    [st EXCEPT !.pc = "done",
               !.ret = [@ EXCEPT !.n = IF st.op = "Steps" THEN 0 ELSE n, !.err = err],
               !.exit = IF st.cli = "" THEN 0 ELSE cmdExit(st.cli, err)]

\* executeStatements, after the statement loop: the schema-agreement wait
\* when configured, then the ledger write of applyUp / applyDown.
afterStatementsMutNoWait(st) ==
    [st EXCEPT !.pc = IF st.dir = "up" THEN "record" ELSE "remove"]
afterStatements(st) ==
    [st EXCEPT !.pc = IF wait THEN "await"
                      ELSE IF st.dir = "up" THEN "record" ELSE "remove"]

\* The statement loop of executeStatements ran to its end without an error.
RanAll(st) == [st EXCEPT !.ran = @ \cup {st.cur}]

\* executeStatements, entry: the content split into statements, then the
\* first statement, if there is one.
executeStatementsMutSkipFirst(st) ==
    IF Len(Parsed[st.content]) = 0
    THEN afterStatements(RanAll(st))
    ELSE [st EXCEPT !.pc = "exec", !.stmt = Len(Parsed[st.content])]
executeStatements(st) ==
    IF Len(Parsed[st.content]) = 0
    THEN afterStatements(RanAll(st))
    ELSE [st EXCEPT !.pc = "exec", !.stmt = 1]

\* executeStatements, after statement st.stmt was submitted: return the
\* MigrationError on failure, else go on with the next statement.
statementResultMutBreak(st, ok) ==
    IF ok /\ st.stmt < Len(Parsed[st.content])
    THEN [st EXCEPT !.stmt = @ + 1]
    ELSE afterStatements(IF ok THEN RanAll(st) ELSE st)
statementResultMutZeroBased(st, ok) ==
    IF ~ok
    THEN Return(st, st.count, MigrationError(st.cur, st.dir, st.stmt - 1, "driver"))
    ELSE IF st.stmt < Len(Parsed[st.content])
    THEN [st EXCEPT !.stmt = @ + 1]
    ELSE afterStatements(RanAll(st))
statementResult(st, ok) ==
    IF ~ok
    THEN Return(st, st.count, MigrationError(st.cur, st.dir, st.stmt, "driver"))
    ELSE IF st.stmt < Len(Parsed[st.content])
    THEN [st EXCEPT !.stmt = @ + 1]
    ELSE afterStatements(RanAll(st))

\* readMigrationContent: the bytes of the half.  The fixture Source is held
\* in memory, so reading an existing half does not fail here.
readMigrationContent(v, d) == Content(v, d)

\* applyUp up to its first query; start := time.Now() precedes it.
applyUpMutSharedTimer(st, v) ==
    IF ~HasUp(v)
    THEN Return(st, st.count, MigrationError(v, "up", 0, "ErrMissingUp"))
    ELSE executeStatements([st EXCEPT !.cur = v, !.dir = "up",
                                      !.content = readMigrationContent(v, "up")])
applyUp(st, v) ==
    IF ~HasUp(v)
    THEN Return(st, st.count, MigrationError(v, "up", 0, "ErrMissingUp"))
    ELSE executeStatements([st EXCEPT !.cur = v, !.dir = "up", !.elapsed = 0,
                                      !.content = readMigrationContent(v, "up")])

\* applyDown up to its first query.
applyDownMutNoCheck(st, v) ==
    IF source[v] = "none"
    THEN Return(st, st.count, MigrationError(v, "down", 0, "ErrVersionNotFound"))
    ELSE executeStatements([st EXCEPT !.cur = v, !.dir = "down", !.elapsed = 0,
                                      !.content = readMigrationContent(v, "down")])
applyDown(st, v) ==
    IF source[v] = "none"
    THEN Return(st, st.count, MigrationError(v, "down", 0, "ErrVersionNotFound"))
    ELSE IF ~HasDown(v)
    THEN Return(st, st.count, MigrationError(v, "down", 0, "ErrMissingDown"))
    ELSE executeStatements([st EXCEPT !.cur = v, !.dir = "down", !.elapsed = 0,
                                      !.content = readMigrationContent(v, "down")])

\* The loop condition of Up / UpTo / Steps(n > 0) at index st.idx (1-based).
upLoopEndsMutNoBreak(st) == st.idx > Len(st.plan)
upLoopEnds(st) ==
    CASE st.op = "Up"    -> st.idx > Len(st.plan)
      [] st.op = "UpTo"  -> st.idx > Len(st.plan) \/ st.plan[st.idx] > st.arg
      [] st.op = "Steps" -> st.idx > st.limit

LoopUp(st) ==
    IF upLoopEnds(st)
    THEN Return(st, st.count, NoErr)
    ELSE applyUp(st, st.plan[st.idx])

\* The loop condition of DownTo / Steps(n < 0) at index st.idx (1-based).
downLoopEnds(st) ==
    CASE st.op = "DownTo" -> st.idx > Len(st.plan) \/ st.plan[st.idx] <= st.arg
      [] st.op = "Steps"  -> st.idx > st.limit

LoopDown(st) ==
    IF downLoopEnds(st)
    THEN Return(st, st.count, NoErr)
    ELSE applyDown(st, st.plan[st.idx])

\* applyUp returned nil: applied++ and the next iteration of the loop.
afterRecordMutNoCount(st) == LoopUp([st EXCEPT !.idx = @ + 1])
afterRecord(st) == LoopUp([st EXCEPT !.idx = @ + 1, !.count = @ + 1])

\* applyUp after recordMigration: its error is returned as it is, else nil.
recordResultMutMigrationError(st, ok) ==
    IF ~ok
    THEN Return(st, st.count, MigrationError(st.cur, "up", st.stmt, "driver"))
    ELSE afterRecord(st)
recordResult(st, ok) ==
    IF ~ok
    THEN Return(st, st.count, WrappedErr("record migration", st.cur))
    ELSE afterRecord(st)

\* applyDown returned nil: rolledBack++ and the next iteration of the loop.
afterRemove(st) == LoopDown([st EXCEPT !.idx = @ + 1, !.count = @ + 1])

\* Version / Applied after the existence probe: (0, nil) / (nil, nil) when
\* the table is not there, else the rows are read.
probeResultMutNoCheck(st, exists) == [st EXCEPT !.pc = "selApplied"]
probeResult(st, exists) ==
    IF exists THEN [st EXCEPT !.pc = "selApplied"] ELSE Return(st, 0, NoErr)

\* count := n; if count > len(list) { count = len(list) }
stepCountMutOffByOne(n, len) == IF n + 1 > len THEN len ELSE n + 1
stepCount(n, len) == IF n > len THEN len ELSE n

\* What follows a successful ensureHistoryTable in each operation.
afterEnsure(st) ==
    CASE st.op \in {"Up", "UpTo"} -> [st EXCEPT !.pc = "selPending"]
      [] st.op \in {"DownTo", "Status"} -> [st EXCEPT !.pc = "selApplied"]
      [] st.op = "Steps" ->
            IF st.arg = 0 THEN Return(st, 0, NoErr)
            ELSE IF st.arg > 0 THEN [st EXCEPT !.pc = "selPending"]
            ELSE [st EXCEPT !.pc = "selApplied"]

\* What each operation does with the pending list it loaded.
withPending(st, pend) ==
    CASE st.op = "Up" ->
            IF Len(pend) = 0 THEN Return([st EXCEPT !.plan = pend], 0, NoErr)
            ELSE LoopUp([st EXCEPT !.plan = pend, !.idx = 1])
      [] st.op = "UpTo" -> LoopUp([st EXCEPT !.plan = pend, !.idx = 1])
      [] st.op = "Steps" ->
            IF Len(pend) = 0 THEN Return([st EXCEPT !.plan = pend], 0, ErrNoChange)
            ELSE LoopUp([st EXCEPT !.plan = pend, !.idx = 1,
                                   !.limit = stepCount(st.arg, Len(pend))])
      [] st.op = "Pending" ->
            [st EXCEPT !.pc = "done", !.ret = [@ EXCEPT !.pending = pend]]
      [] st.op = "Status" ->
            [st EXCEPT !.pc = "done",
                       !.ret = [@ EXCEPT !.pending = pend, !.ver = MaxVersionOf(st.ret.list)]]

\* What each operation does with the applied rows it loaded.
withApplied(st, rows) ==
    CASE st.op = "DownTo" -> LoopDown([st EXCEPT !.plan = SortDesc(rows), !.idx = 1])
      [] st.op = "Steps" ->
            IF Len(rows) = 0 THEN Return(st, 0, ErrNoChange)
            ELSE LoopDown([st EXCEPT !.plan = SortDesc(rows), !.idx = 1,
                                     !.limit = stepCount(Neg(st.arg), Len(rows))])
      [] st.op = "Status" ->
            [st EXCEPT !.pc = "selPending", !.ret = [@ EXCEPT !.list = rows]]
      [] st.op = "Version" ->
            [st EXCEPT !.pc = "done", !.ret = [@ EXCEPT !.ver = MaxVersionOf(rows)]]
      [] st.op = "Applied" ->
            [st EXCEPT !.pc = "done", !.ret = [@ EXCEPT !.list = rows]]


\* ----------------------------------------------------------------- Init
Init ==
    /\ source \in [Versions -> Halves]
    /\ wait \in BOOLEAN
    /\ tableExists = FALSE
    /\ ledger = {}
    /\ history = <<>>
    /\ schema = Untouched
    /\ latency = {0}
    /\ active = {1}
    /\ eng = [e \in Engines |-> InitEng]
    /\ faults = TRUE
    /\ call = NoCall /\ result = NoCall

\* ------------------------------------------------- the public operations
Idle(e) == e \in active /\ eng[e].pc \in {"idle", "done"}

\* The engine record at the entry of a public operation.
Enter(e, op, arg, pc) ==
    [InitEng EXCEPT !.pc = pc, !.op = op, !.arg = arg,
                    !.start = ledger, !.startTable = tableExists,
                    !.prevUpOk = (op = "Up" /\ eng[e].pc = "done" /\ eng[e].op = "Up"
                                  /\ eng[e].ret.err = NoErr),
                    !.prevFail = IF /\ op \in {"Up", "Pending"}
                                    /\ eng[e].pc = "done"
                                    /\ eng[e].ret.err.kind = "MigrationError"
                                    /\ eng[e].ret.err.dir = "up"
                                    /\ eng[e].ret.err.stmt >= 1
                                 THEN eng[e].ret.err ELSE NoErr]

Cluster == <<Config, tableExists, ledger, history, schema>>

Up(e) ==
    /\ Idle(e)
    /\ eng' = [eng EXCEPT ![e] = Enter(e, "Up", 0, "ensure")]
    /\ UNCHANGED Cluster

UpTo(e) ==
    /\ Idle(e)
    /\ \E v \in 0..MaxVersion :
         eng' = [eng EXCEPT ![e] = Enter(e, "UpTo", v, "ensure")]
    /\ UNCHANGED Cluster

DownTo(e) ==
    /\ Idle(e)
    /\ \E v \in 0..MaxVersion :
         eng' = [eng EXCEPT ![e] = Enter(e, "DownTo", v, "ensure")]
    /\ UNCHANGED Cluster

Steps(e) ==
    /\ Idle(e)
    /\ \E n \in Ints :
         eng' = [eng EXCEPT ![e] = Enter(e, "Steps", n, "ensure")]
    /\ UNCHANGED Cluster

\* Down is Steps(ctx, -1).
Down(e) ==
    /\ Idle(e)
    /\ eng' = [eng EXCEPT ![e] = Enter(e, "Steps", -1, "ensure")]
    /\ UNCHANGED Cluster

Status(e) ==
    /\ Idle(e)
    /\ eng' = [eng EXCEPT ![e] = Enter(e, "Status", 0, "ensure")]
    /\ UNCHANGED Cluster

Version(e) ==
    /\ Idle(e)
    /\ eng' = [eng EXCEPT ![e] = Enter(e, "Version", 0, "probe")]
    /\ UNCHANGED Cluster

Applied(e) ==
    /\ Idle(e)
    /\ eng' = [eng EXCEPT ![e] = Enter(e, "Applied", 0, "probe")]
    /\ UNCHANGED Cluster

Pending(e) ==
    /\ Idle(e)
    /\ eng' = [eng EXCEPT ![e] = Enter(e, "Pending", 0, "selPending")]
    /\ UNCHANGED Cluster

\* ------------------------------------------------ the queries, one per step
\* ensureHistoryTable: CREATE TABLE IF NOT EXISTS.
ensureHistoryTable(e) ==
    /\ e \in active /\ eng[e].pc = "ensure"
    /\ \E ok \in Outcomes :
         LET st == Logged(eng[e], Entry("CREATE", 0, "", 0, ok)) IN
         /\ tableExists' = (tableExists \/ ok)
         /\ eng' = [eng EXCEPT ![e] =
                IF ~ok THEN Return(st, 0, WrappedErr("create history table", 0))
                ELSE IF wait THEN [st EXCEPT !.pc = "ensureWait"]
                ELSE afterEnsure(st)]
    /\ UNCHANGED <<Config, ledger, history, schema>>

\* ensureHistoryTable: AwaitSchemaAgreement after the CREATE TABLE.
ensureAwait(e) ==
    /\ e \in active /\ eng[e].pc = "ensureWait"
    /\ \E ok \in Outcomes :
         LET st == Logged(eng[e], Entry("AWAIT", 0, "", 0, ok)) IN
         eng' = [eng EXCEPT ![e] =
                IF ~ok THEN Return(st, 0, WrappedErr("schema agreement", 0))
                ELSE afterEnsure(st)]
    /\ UNCHANGED Cluster

\* historyTableExists, after Scan: ok is whether the driver carried the
\* query out (else a session error: timeout, unavailable, closed session),
\* found whether a row came back (else gocql.ErrNotFound).
scanResultMutPropagate(ok, found) ==
    [exists |-> ok /\ found,
     err |-> IF ok THEN NoErr ELSE WrappedErr("history table probe", 0)]
scanResult(ok, found) == [exists |-> ok /\ found, err |-> NoErr]

\* historyTableExists: the probe of system_schema.tables, and the caller's
\* `if err != nil { return ..., err }`.
historyTableExists(e) ==
    /\ e \in active /\ eng[e].pc = "probe"
    /\ \E ok \in Outcomes :
         LET st == Logged(eng[e], Entry("PROBE", 0, "", 0, ok))
             r == scanResult(ok, tableExists) IN
         eng' = [eng EXCEPT ![e] =
                IF r.err # NoErr THEN Return(st, 0, r.err)
                ELSE probeResult(st, r.exists)]
    /\ UNCHANGED Cluster

\* getAppliedMigrations as called by Pending (through getAppliedVersions).
selectForPending(e) ==
    /\ e \in active /\ eng[e].pc = "selPending"
    /\ \E ok \in Outcomes, rows \in Perms(ledger) :
         /\ ok => tableExists
         /\ LET st == Logged(eng[e], Entry("SELECT", 0, "", 0, ok)) IN
            eng' = [eng EXCEPT ![e] =
                IF ~ok THEN Return(st, 0, WrappedErr("read applied migrations", 0))
                ELSE withPending(st, pendingPairs(rows))]
    /\ UNCHANGED Cluster

\* getAppliedMigrations as called by DownTo, Steps, Status, Version, Applied.
getAppliedMigrations(e) ==
    /\ e \in active /\ eng[e].pc = "selApplied"
    /\ \E ok \in Outcomes, rows \in Perms(ledger) :
         /\ ok => tableExists
         /\ LET st == Logged(eng[e], Entry("SELECT", 0, "", 0, ok)) IN
            eng' = [eng EXCEPT ![e] =
                IF ~ok THEN Return(st, 0, WrappedErr("read applied migrations", 0))
                ELSE withApplied(st, rows)]
    /\ UNCHANGED Cluster

\* executeStatements: one statement of the current migration file, as the
\* engine sees it.
sendStatement(e) ==
    /\ e \in active /\ eng[e].pc = "exec"
    /\ \E ok \in Outcomes, ms \in latency :
         LET s0 == eng[e]
             st == Timed(Submitted(Logged(s0, Entry("DDL", s0.cur, s0.dir, s0.stmt, ok))),
                         ms) IN
         eng' = [eng EXCEPT ![e] = statementResult(st, ok)]
    /\ UNCHANGED <<Config, tableExists, ledger, history>>

executeStatement(e) == sendStatement(e) /\ UNCHANGED schema

\* executeStatements: AwaitSchemaAgreement after the last statement.
awaitSchemaAgreement(e) ==
    /\ e \in active /\ eng[e].pc = "await"
    /\ \E ok \in Outcomes, ms \in latency :
         LET s0 == eng[e]
             st == Timed(Logged(s0, Entry("AWAIT", s0.cur, s0.dir, 0, ok)), ms) IN
         eng' = [eng EXCEPT ![e] =
                IF ~ok THEN Return(st, st.count, WrappedErr("schema agreement", st.cur))
                ELSE [st EXCEPT !.pc = IF st.dir = "up" THEN "record" ELSE "remove"]]
    /\ UNCHANGED Cluster

\* recordMigration(ctx, pair.Version, pair.Description, checksum, duration):
\* the columns of the row; checksum and duration are applyUp's locals.
rowOfMutTrimmed(st) ==
    [description |-> Description(st.cur), checksum |-> checksum(TrimSpace(st.content)),
     execution_ms |-> st.elapsed]
rowOf(st) ==
    [description |-> Description(st.cur), checksum |-> Checksums[st.content],
     execution_ms |-> st.elapsed]

\* The rows after the INSERT of the row of version v.
UpsertMutRewrite(table, v, row) == [w \in DOMAIN table \cup {v} |-> row]
Upsert(table, v, row) ==
    [w \in DOMAIN table \cup {v} |-> IF w = v THEN row ELSE table[w]]

\* The INSERT of recordMigration has no IF NOT EXISTS: the driver permitting,
\* it succeeds whether or not the row exists (an upsert on the primary key).
insertRowMutNever(rows, v, ok) == FALSE
insertRowMutConflict(rows, v, ok) == ok /\ v \notin rows
insertRow(rows, v, ok) == ok

\* recordMigration: INSERT of the ledger row, then the next loop iteration.
recordMigration(e) ==
    /\ e \in active /\ eng[e].pc = "record"
    /\ \E sent \in Outcomes :
         /\ sent => tableExists
         /\ LET s0 == eng[e]
                ok == insertRow(ledger, s0.cur, sent)
                st == Logged(s0, Entry("INSERT", s0.cur, s0.dir, 0, ok)) IN
            /\ ledger' = IF ok THEN ledger \cup {st.cur} ELSE ledger
            /\ history' = IF ok THEN Upsert(history, st.cur, rowOf(st)) ELSE history
            /\ eng' = [eng EXCEPT ![e] = recordResult(st, ok)]
    /\ UNCHANGED <<Config, tableExists, schema>>

\* The versions with a row after DELETE ... WHERE version = v.
deleteRowMutKeep(rows, v) == rows
deleteRow(rows, v) == rows \ {v}

\* removeMigration: DELETE of the ledger row, then the next loop iteration.
removeMigration(e) ==
    /\ e \in active /\ eng[e].pc = "remove"
    /\ \E ok \in Outcomes :
         /\ ok => tableExists
         /\ LET s0 == eng[e]
                st == Logged(s0, Entry("DELETE", s0.cur, s0.dir, 0, ok)) IN
            /\ ledger' = IF ok THEN deleteRow(ledger, st.cur) ELSE ledger
            /\ history' = IF ok THEN [v \in DOMAIN history \ {st.cur} |-> history[v]]
                           ELSE history
            /\ eng' = [eng EXCEPT ![e] =
                   IF ~ok THEN Return(st, st.count, WrappedErr("remove migration record", st.cur))
                   ELSE afterRemove(st)]
    /\ UNCHANGED <<Config, tableExists, schema>>

Query(e) ==
    \/ ensureHistoryTable(e)
    \/ ensureAwait(e)
    \/ historyTableExists(e)
    \/ selectForPending(e)
    \/ getAppliedMigrations(e)
    \/ executeStatement(e)
    \/ awaitSchemaAgreement(e)
    \/ recordMigration(e)
    \/ removeMigration(e)

Next ==
    \E e \in Engines :
        \/ Up(e) \/ UpTo(e) \/ DownTo(e) \/ Steps(e) \/ Down(e)
        \/ Status(e) \/ Version(e) \/ Applied(e) \/ Pending(e)
        \/ Query(e)

Spec == Init /\ [][Next]_vars

\* Only the up operations: Up, UpTo and Steps(n > 0).
StepsUp(e) ==
    /\ Idle(e)
    /\ \E n \in 1..IntMax :
         eng' = [eng EXCEPT ![e] = Enter(e, "Steps", n, "ensure")]
    /\ UNCHANGED Cluster

NextUp ==
    \E e \in Engines :
        \/ Up(e) \/ UpTo(e) \/ StepsUp(e)
        \/ ensureHistoryTable(e) \/ ensureAwait(e) \/ selectForPending(e)
        \/ executeStatement(e) \/ awaitSchemaAgreement(e) \/ recordMigration(e)

SpecUp == Init /\ [][NextUp]_vars

\* The row an earlier run of the engine wrote for version v.
PriorRow(v) ==
    [description |-> Description(v), checksum |-> checksum(Content(v, "up")),
     execution_ms |-> 0]

\* A keyspace whose history table already holds rows when the engine is
\* built, for versions the Source may or may not (any longer) contain.
InitLedger ==
    /\ source \in [Versions -> Halves]
    /\ wait \in BOOLEAN
    /\ tableExists = TRUE
    /\ ledger \in SUBSET Versions
    /\ history = [v \in ledger |-> PriorRow(v)]
    /\ schema = Untouched
    /\ latency = {0}
    /\ active = {1}
    /\ eng = [e \in Engines |-> InitEng]
    /\ faults = TRUE
    /\ call = NoCall /\ result = NoCall

\* The first call an engine makes after its construction.
First(e) == e \in active /\ eng[e].pc = "idle"

NextLedger ==
    \E e \in Engines :
        \/ First(e) /\ (Up(e) \/ Down(e) \/ DownTo(e) \/ Status(e) \/ Pending(e))
        \/ ensureHistoryTable(e) \/ ensureAwait(e)
        \/ selectForPending(e) \/ getAppliedMigrations(e)
        \/ executeStatement(e) \/ awaitSchemaAgreement(e)
        \/ recordMigration(e) \/ removeMigration(e)

SpecLedger == InitLedger /\ [][NextLedger]_vars

\* Two operator processes over the same keyspace and the same Source, each
\* calling Up once, with a driver that fails no query.
InitConc ==
    /\ source \in [Versions -> Halves]
    /\ wait \in BOOLEAN
    /\ tableExists = FALSE
    /\ ledger = {}
    /\ history = <<>>
    /\ schema = Untouched
    /\ latency = {0}
    /\ active = Engines
    /\ eng = [e \in Engines |-> InitEng]
    /\ faults = FALSE
    /\ call = NoCall /\ result = NoCall

NextConc ==
    \E e \in Engines :
        \/ First(e) /\ Up(e)
        \/ ensureHistoryTable(e) \/ ensureAwait(e) \/ selectForPending(e)
        \/ executeStatement(e) \/ awaitSchemaAgreement(e) \/ recordMigration(e)

SpecConc == InitConc /\ [][NextConc]_vars

\* ------------------------------------------------- retries under fairness
\* One operator that calls Up again and again over a Source in which every
\* pair has an up half, with a driver whose failures are transient.
InitLive ==
    /\ source \in [Versions -> {"none", "up", "both"}]
    /\ wait \in BOOLEAN
    /\ tableExists = FALSE
    /\ ledger = {}
    /\ history = <<>>
    /\ schema = Untouched
    /\ latency = {0}
    /\ active = {1}
    /\ eng = [e \in Engines |-> InitEng]
    /\ faults = TRUE
    /\ call = NoCall /\ result = NoCall

NextLive ==
    \E e \in Engines :
        \/ Up(e)
        \/ ensureHistoryTable(e) \/ ensureAwait(e) \/ selectForPending(e)
        \/ executeStatement(e) \/ awaitSchemaAgreement(e) \/ recordMigration(e)

\* The step is a query of engine e that the driver carries out.
Succeeds(e) ==
    /\ Len(eng'[e].log) = Len(eng[e].log) + 1
    /\ eng'[e].log[Len(eng'[e].log)].ok

\* The operator calls Up whenever the previous call has returned and the
\* engine goes on, and no query fails for ever: the creation of the
\* history table, its wait, the read of the ledger, the i-th statement of
\* a file, the wait after the statements and the ledger insert each succeed
\* again and again when submitted again and again.
Fairness ==
    \A e \in {1} :
        /\ WF_vars(NextLive)
        /\ SF_vars(ensureHistoryTable(e) /\ Succeeds(e))
        /\ SF_vars(ensureAwait(e) /\ Succeeds(e))
        /\ SF_vars(selectForPending(e) /\ Succeeds(e))
        /\ SF_vars(awaitSchemaAgreement(e) /\ Succeeds(e))
        /\ SF_vars(recordMigration(e) /\ Succeeds(e))
        /\ \A i \in 1..MaxStmts :
              SF_vars(executeStatement(e) /\ eng[e].stmt = i /\ Succeeds(e))

SpecLive == InitLive /\ [][NextLive]_vars /\ Fairness

\* ------------------------------------------------------ operators that race
\* executeStatements, with the keyspace watched: a statement the driver
\* carried out is the latest to have run for its version.
executeStatementWatched(e) ==
    /\ sendStatement(e)
    /\ schema' = IF Succeeds(e) THEN [schema EXCEPT ![eng[e].cur] = eng[e].dir]
                 ELSE schema

\* The largest number of pairs in the Source the racing operators share.
MaxPairs == 2

\* One operator calling Up and Down again and again, alone or while a
\* second operator runs Up once, over the same fresh keyspace and the same
\* Source of complete pairs; no lock between them, no query fails.
InitRace ==
    /\ source \in {[v \in Versions |-> IF v <= k THEN "both" ELSE "none"] :
                       k \in 1..MaxPairs}
    /\ wait \in BOOLEAN
    /\ tableExists = FALSE
    /\ ledger = {}
    /\ history = <<>>
    /\ schema = Untouched
    /\ latency = {0}
    /\ active \in {{1}, Engines}
    /\ eng = [e \in Engines |-> InitEng]
    /\ faults = FALSE
    /\ call = NoCall /\ result = NoCall

NextRace ==
    \E e \in Engines :
        \/ (e = 1 \/ First(e)) /\ (Up(e) \/ (e = 1 /\ Down(e)))
        \/ ensureHistoryTable(e) \/ ensureAwait(e)
        \/ selectForPending(e) \/ getAppliedMigrations(e)
        \/ executeStatementWatched(e) \/ awaitSchemaAgreement(e)
        \/ recordMigration(e) \/ removeMigration(e)

SpecRace == InitRace /\ [][NextRace]_vars

\* ------------------------------------------------------ the command line
\* `scyllamigrate up -n steps`: Steps(ctx, steps) when steps > 0, else Up.
upCmd(e) ==
    /\ Idle(e)
    /\ \E steps \in Ints :
         eng' = [eng EXCEPT ![e] =
                [Enter(e, IF steps > 0 THEN "Steps" ELSE "Up",
                       IF steps > 0 THEN steps ELSE 0, "ensure")
                    EXCEPT !.cli = "up", !.flag = steps]]
    /\ UNCHANGED Cluster

\* `scyllamigrate down -n steps`: Steps(ctx, -steps).
downCmd(e) ==
    /\ Idle(e)
    /\ \E steps \in Ints :
         eng' = [eng EXCEPT ![e] =
                [Enter(e, "Steps", Neg(steps), "ensure")
                    EXCEPT !.cli = "down", !.flag = steps]]
    /\ UNCHANGED Cluster

\* createMigrator passes no schema-agreement option: the wait is on.
InitCli ==
    /\ source \in [Versions -> Halves]
    /\ wait = TRUE
    /\ tableExists = FALSE
    /\ ledger = {}
    /\ history = <<>>
    /\ schema = Untouched
    /\ latency = {0}
    /\ active = {1}
    /\ eng = [e \in Engines |-> InitEng]
    /\ faults = TRUE
    /\ call = NoCall /\ result = NoCall

NextCli ==
    \E e \in Engines :
        \/ upCmd(e) \/ downCmd(e)
        \/ ensureHistoryTable(e) \/ ensureAwait(e)
        \/ selectForPending(e) \/ getAppliedMigrations(e)
        \/ executeStatement(e) \/ awaitSchemaAgreement(e)
        \/ recordMigration(e) \/ removeMigration(e)

SpecCli == InitCli /\ [][NextCli]_vars

\* Longest time a query takes, in milliseconds.
MaxLatency == 1

\* One engine and its first Up over a Source of up halves, with a driver
\* whose queries take up to MaxLatency milliseconds each.
InitTimed ==
    /\ source \in [Versions -> {"none", "up"}]
    /\ wait \in BOOLEAN
    /\ tableExists = FALSE
    /\ ledger = {}
    /\ history = <<>>
    /\ schema = Untouched
    /\ latency = 0..MaxLatency
    /\ active = {1}
    /\ eng = [e \in Engines |-> InitEng]
    /\ faults = TRUE
    /\ call = NoCall /\ result = NoCall

NextTimed ==
    \E e \in Engines :
        \/ First(e) /\ Up(e)
        \/ ensureHistoryTable(e) \/ ensureAwait(e) \/ selectForPending(e)
        \/ executeStatement(e) \/ awaitSchemaAgreement(e) \/ recordMigration(e)

SpecTimed == InitTimed /\ [][NextTimed]_vars

\* ------------------------------------------------------ the pure functions
\* The state around a call of a pure function: no cluster, no engine running.
Detached ==
    /\ source = [v \in Versions |-> "none"]
    /\ wait = TRUE
    /\ tableExists = FALSE
    /\ ledger = {}
    /\ history = <<>>
    /\ schema = Untouched
    /\ latency = {0}
    /\ active = {}
    /\ eng = [e \in Engines |-> InitEng]
    /\ faults = FALSE

\* The call has returned.
Returned == DOMAIN result # {}

\* What the call of a pure function leaves as it is.
Arguments ==
    <<source, wait, tableExists, ledger, history, schema, latency, active, eng,
      faults, call>>

\* All sequences over S of length at most n.
SeqsUpTo(S, n) == UNION {[1..k -> S] : k \in 0..n}

\* ------------------------------------------------------------------- New
\* Largest number of options passed to New.
MaxOpts == 3

Sessions == {"nil", "session"}

\* The options of the fixture calls: each constructor with arguments that
\* make it succeed and, where it can fail, arguments that make it fail.
Options ==
    {[name |-> "WithSource", arg |-> a] : a \in {"nil", "source"}}
    \cup {[name |-> "WithFS", arg |-> a] : a \in {"fs", "unreadable", "overflow"}}
    \cup {[name |-> "WithDir", arg |-> a] : a \in {"dir", "missing"}}
    \cup {[name |-> "WithKeyspace", arg |-> a] : a \in {"", "ks"}}
    \cup {[name |-> "WithHistoryTable", arg |-> a] : a \in {"history"}}
    \cup {[name |-> "WithSchemaAgreement", arg |-> a] : a \in {"true", "false"}}

\* NewFSSource / NewDirSource: the error of scan, "nil" when it succeeds.
NewFSSource(fsys) ==
    CASE fsys \in {"unreadable", "missing"} -> "SourceError"
      [] fsys = "overflow" -> "ParseError"
      [] OTHER -> "nil"

\* opt(m): the Migrator after the option and the error it returned.
ApplyOption(m, opt) ==
    CASE opt.name = "WithSource" ->
            [m |-> [m EXCEPT !.source = opt.arg], err |-> "nil"]
      [] opt.name \in {"WithFS", "WithDir"} ->
            IF NewFSSource(opt.arg) # "nil"
            THEN [m |-> m, err |-> NewFSSource(opt.arg)]
            ELSE [m |-> [m EXCEPT !.source = opt.arg], err |-> "nil"]
      [] opt.name = "WithKeyspace" ->
            [m |-> [m EXCEPT !.keyspace = opt.arg], err |-> "nil"]
      [] opt.name = "WithHistoryTable" ->
            [m |-> [m EXCEPT !.historyTable = opt.arg], err |-> "nil"]
      [] opt.name = "WithSchemaAgreement" ->
            [m |-> [m EXCEPT !.waitForSchemaAgreement = (opt.arg = "true")], err |-> "nil"]

\* for _, opt := range opts { if err := opt(m); err != nil { return nil, err } }
RECURSIVE ApplyOptions(_, _)
ApplyOptions(m, opts) ==
    IF opts = <<>> THEN [m |-> m, err |-> "nil"]
    ELSE LET r == ApplyOption(m, Head(opts)) IN
         IF r.err # "nil" THEN r ELSE ApplyOptions(r.m, Tail(opts))

NilMigrator ==
    [session |-> "nil", source |-> "nil", keyspace |-> "", historyTable |-> "",
     waitForSchemaAgreement |-> FALSE]

\* &Migrator{session, historyTable: "schema_migrations", waitForSchemaAgreement: true}
DefaultMigrator(session) ==
    [session |-> session, source |-> "nil", keyspace |-> "",
     historyTable |-> "schema_migrations", waitForSchemaAgreement |-> TRUE]

Failed(err) == [ok |-> FALSE, m |-> NilMigrator, err |-> err]

NewMutKeyspaceFirst(session, opts) ==
    IF session = "nil" THEN Failed("ErrNoSession")
    ELSE LET r == ApplyOptions(DefaultMigrator(session), opts) IN
         IF r.err # "nil" THEN Failed(r.err)
         ELSE IF r.m.keyspace = "" THEN Failed("ErrNoKeyspace")
         ELSE IF r.m.source = "nil" THEN Failed("ErrNoSource")
         ELSE [ok |-> TRUE, m |-> r.m, err |-> "nil"]
New(session, opts) ==
    IF session = "nil" THEN Failed("ErrNoSession")
    ELSE LET r == ApplyOptions(DefaultMigrator(session), opts) IN
         IF r.err # "nil" THEN Failed(r.err)
         ELSE IF r.m.source = "nil" THEN Failed("ErrNoSource")
         ELSE IF r.m.keyspace = "" THEN Failed("ErrNoKeyspace")
         ELSE [ok |-> TRUE, m |-> r.m, err |-> "nil"]

InitNew ==
    /\ Detached
    /\ call \in [session : Sessions, opts : SeqsUpTo(Options, MaxOpts)]
    /\ result = NoCall

CallNew ==
    /\ ~Returned
    /\ result' = New(call.session, call.opts)
    /\ UNCHANGED Arguments

SpecNew == InitNew /\ [][CallNew]_vars

\* ------------------------------------------------------------- errors.Is
\* Deepest nesting of wrapper errors around a sentinel.
MaxDepth == 3

\* The sentinel constants of type Error (a string) with their values.
Sentinel ==
    [ErrNoSource         |-> "scyllamigrate: no migration source configured",
     ErrNoChange         |-> "scyllamigrate: no migrations to apply",
     ErrMissingDown      |-> "scyllamigrate: down migration not found",
     ErrMissingUp        |-> "scyllamigrate: up migration not found",
     ErrMissingVersion   |-> "scyllamigrate: migration version not found",
     ErrChecksumMismatch |-> "scyllamigrate: migration file was modified after being applied",
     ErrVersionNotFound  |-> "scyllamigrate: migration version not found",
     ErrNoKeyspace       |-> "scyllamigrate: no keyspace configured",
     ErrNoSession        |-> "scyllamigrate: no database session provided"]

\* The pointer-typed wrapper errors that carry an Err field.
Wrappers == {"MigrationError", "SourceError", "ParseError"}

\* An error value: its layers from the outermost wrapper to the innermost
\* error; the nil error has no layer.
NilError == <<>>
ErrorValue(msg) == <<[type |-> "Error", msg |-> msg]>>
Wrap(type, err) == <<[type |-> type, msg |-> ""]>> \o err

\* &W1{Err: &W2{Err: ... s}} for the wrapper types ws, outermost first.
RECURSIVE Chain(_, _)
Chain(ws, err) == IF ws = <<>> THEN err ELSE Wrap(Head(ws), Chain(Tail(ws), err))

\* Unwrap: the Err field of a wrapper; the Error type has no Unwrap method.
UnwrapMutParseOpaque(err) ==
    IF Head(err).type \in Wrappers \ {"ParseError"} THEN Tail(err) ELSE NilError
Unwrap(err) == IF Head(err).type \in Wrappers THEN Tail(err) ELSE NilError

\* err == target for a target of type Error: equal dynamic type and string.
SameError(err, target) == Head(err).type = "Error" /\ Head(err) = Head(target)

\* errors.Is: walk the Unwrap chain until a layer equals the target.
RECURSIVE ErrorsIs(_, _)
ErrorsIs(err, target) ==
    IF err = NilError THEN FALSE
    ELSE IF SameError(err, target) THEN TRUE
    ELSE ErrorsIs(Unwrap(err), target)

InitIs ==
    /\ Detached
    /\ call \in [wrappers : SeqsUpTo(Wrappers, MaxDepth),
                  s : DOMAIN Sentinel, t : DOMAIN Sentinel]
    /\ result = NoCall

\* errors.Is(chain, s) and errors.Is(chain, t) for the chain built around s.
CallIs ==
    /\ ~Returned
    /\ LET chain == Chain(call.wrappers, ErrorValue(Sentinel[call.s])) IN
       result' = [s |-> ErrorsIs(chain, ErrorValue(Sentinel[call.s])),
                  t |-> ErrorsIs(chain, ErrorValue(Sentinel[call.t]))]
    /\ UNCHANGED Arguments

SpecIs == InitIs /\ [][CallIs]_vars

\* ------------------------------------------------- migration file names
\* Longest digit run of the fixture file names.
MaxDigits == 3
\* Width in bits of the modelled uint64 that strconv.ParseUint parses into.
UintWidth == 4

UintMax == (2 ^ UintWidth) - 1

\* A file name is the sequence of its characters.
DigitValue ==
    [c \in {"0", "1", "2", "3", "4", "5", "6", "7", "8", "9"} |->
        CASE c = "0" -> 0 [] c = "1" -> 1 [] c = "2" -> 2 [] c = "3" -> 3
          [] c = "4" -> 4 [] c = "5" -> 5 [] c = "6" -> 6 [] c = "7" -> 7
          [] c = "8" -> 8 [] c = "9" -> 9]
IsDigit(c) == c \in DOMAIN DigitValue

\* The digit runs and the remainders the fixture file names are made of.
DigitRuns == SeqsUpTo({"0", "1", "5", "6", "9"}, MaxDigits)
Tails ==
    {<<"_", "a", ".", "u", "p", ".", "c", "q", "l">>,
     <<"_", "a", ".", "d", "o", "w", "n", ".", "s", "q", "l">>,
     <<"_", "a", "_", "b", ".", "u", "p", ".", "s", "q", "l">>,
     <<"_", "1", ".", "d", "o", "w", "n", ".", "c", "q", "l">>,
     <<"_", "a", ".", "u", "p", ".", "c", "q", "l", ".", "d", "o", "w", "n", ".", "s", "q", "l">>,
     <<>>,
     <<"a", ".", "u", "p", ".", "c", "q", "l">>,
     <<"_", ".", "u", "p", ".", "c", "q", "l">>,
     <<"_", "a", ".", "U", "P", ".", "c", "q", "l">>,
     <<"_", "a", ".", "u", "p", ".", "t", "x", "t">>,
     <<"_", "a", ".", "u", "p", ".", "c", "q", "l", "x">>,
     <<"_", "a", ".", "u", "p">>,
     <<"_", "\n", ".", "u", "p", ".", "c", "q", "l">>}
Filenames == {d \o t : d \in DigitRuns, t \in Tails}

\* ([0-9]+): the length of the leading digit run.
RECURSIVE DigitRun(_)
DigitRun(f) ==
    IF f # <<>> /\ IsDigit(Head(f)) THEN 1 + DigitRun(Tail(f)) ELSE 0

\* \.(up|down)\.(cql|sql)$
Suffixes ==
    {[dir |-> "up", text |-> <<".", "u", "p", ".", "c", "q", "l">>],
     [dir |-> "up", text |-> <<".", "u", "p", ".", "s", "q", "l">>],
     [dir |-> "down", text |-> <<".", "d", "o", "w", "n", ".", "c", "q", "l">>],
     [dir |-> "down", text |-> <<".", "d", "o", "w", "n", ".", "s", "q", "l">>]}
EndsWith(f, t) ==
    Len(f) >= Len(t) /\ SubSeq(f, Len(f) - Len(t) + 1, Len(f)) = t

\* migrationRegex.FindStringSubmatch: the submatches of
\* ^([0-9]+)_(.+)\.(up|down)\.(cql|sql)$, none when f does not match.
FindStringSubmatch(f) ==
    LET n == DigitRun(f) IN
    {[version |-> SubSeq(f, 1, n),
      description |-> SubSeq(f, n + 2, Len(f) - Len(x.text)),
      direction |-> x.dir] :
        x \in {y \in Suffixes :
                 /\ n >= 1 /\ Len(f) > n /\ f[n + 1] = "_"
                 /\ EndsWith(f, y.text)
                 /\ Len(f) - Len(y.text) >= n + 2
                 /\ \A i \in (n + 2)..(Len(f) - Len(y.text)) : f[i] # "\n"}}

\* strconv.ParseUint(s, 10, 64): the value, or a range error when it does
\* not fit the unsigned type.
RECURSIVE ParseUintRec(_, _)
ParseUintRec(ds, n) ==
    IF ds = <<>> THEN [ok |-> TRUE, n |-> n]
    ELSE LET n1 == n * 10 + DigitValue[Head(ds)] IN
         IF n1 > UintMax THEN [ok |-> FALSE, n |-> UintMax]
         ELSE ParseUintRec(Tail(ds), n1)

ParseUintMutBelowMax(ds) ==
    [ParseUintRec(ds, 0) EXCEPT !.ok = @ /\ ParseUintRec(ds, 0).n < UintMax]
ParseUintMutNoRange(ds) == [ParseUintRec(ds, 0) EXCEPT !.ok = TRUE]
ParseUint(ds) == ParseUintRec(ds, 0)

NoMigration == [version |-> 0, description |-> <<>>, direction |-> "", raw |-> <<>>]

\* ParseMigration: the Migration, or a ParseError (carrying the range error
\* of ParseUint when there is one).
ParseMigration(f) ==
    LET matches == FindStringSubmatch(f) IN
    IF matches = {}
    THEN [ok |-> FALSE, m |-> NoMigration, err |-> "ParseError", filename |-> f]
    ELSE LET g == CHOOSE x \in matches : TRUE
             version == ParseUint(g.version) IN
         IF ~version.ok
         THEN [ok |-> FALSE, m |-> NoMigration, err |-> "ParseError: value out of range",
               filename |-> f]
         ELSE [ok |-> TRUE,
               m |-> [version |-> version.n, description |-> g.description,
                      direction |-> g.direction, raw |-> f],
               err |-> "nil", filename |-> <<>>]

\* IsMigrationFile: migrationRegex.MatchString.
IsMigrationFile(f) == FindStringSubmatch(f) # {}

InitParse ==
    /\ Detached
    /\ call \in Filenames
    /\ result = NoCall

\* IsMigrationFile(f) and ParseMigration(f) for the same file name.
CallParse ==
    /\ ~Returned
    /\ result' = [is |-> IsMigrationFile(call), parse |-> ParseMigration(call)]
    /\ UNCHANGED Arguments

SpecParse == InitParse /\ [][CallParse]_vars

\* -------------------------------------------------------------- FSSource
\* Largest number of entries in a fixture directory.
MaxFiles == 3

\* The entries fs.ReadDir may return: migration files of four digit runs
\* (two of them denote the same version, one overflows), a file that is no
\* migration file and a subdirectory named like a migration file.
DirDigits == {<<"1">>, <<"0", "1">>, <<"5">>, <<"9", "9">>}
DirTails ==
    {<<"_", "a", ".", "u", "p", ".", "c", "q", "l">>,
     <<"_", "a", ".", "d", "o", "w", "n", ".", "s", "q", "l">>,
     <<"_", "a", "_", "b", ".", "u", "p", ".", "s", "q", "l">>,
     <<"a", ".", "u", "p", ".", "c", "q", "l">>}
DirEntries ==
    {[name |-> d \o t, isDir |-> FALSE] : d \in DirDigits, t \in DirTails}
    \cup {[name |-> <<"9", "_", "a", ".", "u", "p", ".", "c", "q", "l">>, isDir |-> TRUE]}

\* A directory: its entries in the order fs.ReadDir returns them.
Directories ==
    {d \in SeqsUpTo(DirEntries, MaxFiles) :
        \A i, j \in 1..Len(d) : i # j => d[i].name # d[j].name}

RECURSIVE InsertAsc(_, _)
InsertAsc(x, vs) ==
    IF vs = <<>> THEN <<x>>
    ELSE IF x < Head(vs) THEN <<x>> \o vs
    ELSE <<Head(vs)>> \o InsertAsc(x, Tail(vs))

RECURSIVE SortAscRec(_)
SortAscRec(vs) == IF vs = <<>> THEN <<>> ELSE InsertAsc(Head(vs), SortAscRec(Tail(vs)))

\* sort.Slice(s.versions, ascending)
sortVersionsMutNoSort(vs) == vs
sortVersions(vs) == SortAscRec(vs)

\* &FSSource{fsys, migrations: make(map)} before scan.
EmptySource == [ok |-> TRUE, err |-> "nil", migrations |-> <<>>, versions |-> <<>>]

\* FSSource.scan, the loop body for one directory entry.
scanEntryMutSkipUnparsed(src, entry) ==
    IF entry.isDir \/ ~ParseMigration(entry.name).ok THEN src
    ELSE LET r == ParseMigration(entry.name) IN
         IF ~r.ok THEN [src EXCEPT !.ok = FALSE, !.err = r.err]
         ELSE LET v == r.m.version
                  known == v \in DOMAIN src.migrations
                  pair == IF known THEN src.migrations[v]
                          ELSE [version |-> v, description |-> r.m.description,
                                up |-> NoMigration, down |-> NoMigration]
                  stored == IF r.m.direction = "up" THEN [pair EXCEPT !.up = r.m]
                            ELSE [pair EXCEPT !.down = r.m]
              IN [src EXCEPT
                     !.migrations = [w \in DOMAIN src.migrations \cup {v} |->
                                        IF w = v THEN stored ELSE src.migrations[w]],
                     !.versions = IF known THEN @ ELSE Append(@, v)]
scanEntry(src, entry) ==
    IF entry.isDir \/ ~IsMigrationFile(entry.name) THEN src
    ELSE LET r == ParseMigration(entry.name) IN
         IF ~r.ok THEN [src EXCEPT !.ok = FALSE, !.err = r.err]
         ELSE LET v == r.m.version
                  known == v \in DOMAIN src.migrations
                  pair == IF known THEN src.migrations[v]
                          ELSE [version |-> v, description |-> r.m.description,
                                up |-> NoMigration, down |-> NoMigration]
                  stored == IF r.m.direction = "up" THEN [pair EXCEPT !.up = r.m]
                            ELSE [pair EXCEPT !.down = r.m]
              IN [src EXCEPT
                     !.migrations = [w \in DOMAIN src.migrations \cup {v} |->
                                        IF w = v THEN stored ELSE src.migrations[w]],
                     !.versions = IF known THEN @ ELSE Append(@, v)]

\* FSSource.scan, the loop: it returns at the first parse error.
RECURSIVE scanLoop(_, _)
scanLoop(src, entries) ==
    IF entries = <<>> \/ ~src.ok THEN src
    ELSE scanLoop(scanEntry(src, Head(entries)), Tail(entries))

\* NewFSSource over a readable directory: scan, then the sort of versions.
scan(entries) ==
    LET src == scanLoop(EmptySource, entries) IN
    IF src.ok THEN [src EXCEPT !.versions = sortVersions(@)] ELSE src

\* FSSource.List: the pairs in the order of s.versions.
FSSourceList(src) == [i \in 1..Len(src.versions) |-> src.migrations[src.versions[i]]]

\* FSSource.Versions: the elements and the array that backs the slice.
FSSourceVersions(src) == [elems |-> src.versions, backing |-> "copy"]

\* What ReadUp / ReadDown return: the reader (the name of the file opened,
\* <<>> for nil) and the error, with the Version and Op of its SourceError.
ReadResult(reader, v, op, err) ==
    [version |-> v, op |-> op, reader |-> reader, err |-> err]
ReadOk(reader) == ReadResult(reader, 0, "", NilError)
SourceError(v, op, err) == ReadResult(<<>>, v, op, Wrap("SourceError", err))

\* The error of fsys.Open for a file that is no longer there.
ErrNotExist == ErrorValue("file does not exist")

\* FSSource.ReadUp; opened is whether fsys.Open finds the file.
ReadUpMutNotFound(src, version, opened) ==
    IF version \notin DOMAIN src.migrations
           \/ src.migrations[version].up = NoMigration
    THEN SourceError(version, "read up", ErrorValue(Sentinel.ErrVersionNotFound))
    ELSE IF ~opened THEN SourceError(version, "read up", ErrNotExist)
    ELSE ReadOk(src.migrations[version].up.raw)
ReadUp(src, version, opened) ==
    IF version \notin DOMAIN src.migrations
    THEN SourceError(version, "read up", ErrorValue(Sentinel.ErrVersionNotFound))
    ELSE IF src.migrations[version].up = NoMigration
    THEN SourceError(version, "read up", ErrorValue(Sentinel.ErrMissingUp))
    ELSE IF ~opened THEN SourceError(version, "read up", ErrNotExist)
    ELSE ReadOk(src.migrations[version].up.raw)

\* FSSource.ReadDown
ReadDown(src, version, opened) ==
    IF version \notin DOMAIN src.migrations
    THEN SourceError(version, "read down", ErrorValue(Sentinel.ErrVersionNotFound))
    ELSE IF src.migrations[version].down = NoMigration
    THEN SourceError(version, "read down", ErrorValue(Sentinel.ErrMissingDown))
    ELSE IF ~opened THEN SourceError(version, "read down", ErrNotExist)
    ELSE ReadOk(src.migrations[version].down.raw)

\* The versions ReadUp / ReadDown are asked for: those the directories
\* hold and one that none holds.
ReadVersions == {1, 2, 5, 99}

NoRead == [arg |-> 0, dir |-> "", ret |-> ReadOk(<<>>)]

InitSource ==
    /\ Detached
    /\ call \in Directories
    /\ result = NoCall

CallNewFSSource ==
    /\ ~Returned
    /\ LET src == scan(call) IN
       result' = [step |-> IF src.ok THEN "built" ELSE "failed", fs |-> src,
                  list |-> <<>>, versions |-> <<>>, backing |-> "", read |-> NoRead]
    /\ UNCHANGED Arguments

CallList ==
    /\ Returned /\ result.step = "built"
    /\ result' = [result EXCEPT !.step = "listed", !.list = FSSourceList(result.fs)]
    /\ UNCHANGED Arguments

CallVersions ==
    /\ Returned /\ result.step = "listed"
    /\ result' = [result EXCEPT !.step = "copied",
                                !.versions = FSSourceVersions(result.fs).elems,
                                !.backing = FSSourceVersions(result.fs).backing]
    /\ UNCHANGED Arguments

\* The caller assigns to an element of the slice Versions returned; the
\* Source sees the assignment when the slice is backed by its own array.
CallerWrites ==
    /\ Returned /\ result.step = "copied"
    /\ \E i \in 1..Len(result.versions), x \in {0, UintMax} :
         result' = [result EXCEPT
                       !.step = "written",
                       !.versions = [@ EXCEPT ![i] = x],
                       !.fs = IF result.backing = "copy" THEN @
                              ELSE [@ EXCEPT !.versions = [@ EXCEPT ![i] = x]]]
    /\ UNCHANGED Arguments

CallReadUp ==
    /\ Returned /\ result.step = "built"
    /\ \E v \in ReadVersions, opened \in BOOLEAN :
         result' = [result EXCEPT
                       !.step = "read",
                       !.read = [arg |-> v, dir |-> "up",
                                 ret |-> ReadUp(result.fs, v, opened)]]
    /\ UNCHANGED Arguments

CallReadDown ==
    /\ Returned /\ result.step = "built"
    /\ \E v \in ReadVersions, opened \in BOOLEAN :
         result' = [result EXCEPT
                       !.step = "read",
                       !.read = [arg |-> v, dir |-> "down",
                                 ret |-> ReadDown(result.fs, v, opened)]]
    /\ UNCHANGED Arguments

NextSource ==
    \/ CallNewFSSource \/ CallList \/ CallVersions \/ CallerWrites
    \/ CallReadUp \/ CallReadDown

SpecSource == InitSource /\ [][NextSource]_vars

\* ------------------------------------------- reading a migration file
\* The directions readMigrationContent is called with: Up, Down and a
\* Direction that is neither.
Directions == {"up", "down", "invalid"}

\* The bytes io.ReadAll yields for the file a reader was opened on.
Bytes(file) == <<"bytes of", file>>
NoContent == <<>>

\* The error of a Read that fails.
ErrRead == ErrorValue("read failed")

\* What readMigrationContent leaves behind: content and error when it
\* returns, whether it panicked instead, and whether the reader it got from
\* the Source was closed.
ContentResult(content, ret, panicked, closed) ==
    [content |-> content, ret |-> ret, panicked |-> panicked, closed |-> closed]

\* Migrator.readMigrationContent over an FSSource; opened is whether
\* fsys.Open finds the file, readable whether io.ReadAll gets to its end.
\* The switch has no default: for a Direction that is neither Up nor Down
\* reader and err keep their zero values, and reader.Close is called on a
\* nil interface value.
readMigrationContentOf(src, version, direction, opened, readable) ==
    LET got == CASE direction = "up" -> ReadUp(src, version, opened)
                 [] direction = "down" -> ReadDown(src, version, opened)
                 [] OTHER -> ReadOk(<<>>) IN
    IF got.err # NilError THEN ContentResult(NoContent, got, FALSE, FALSE)
    ELSE IF got.reader = <<>> THEN ContentResult(NoContent, ReadOk(<<>>), TRUE, FALSE)
    ELSE IF ~readable THEN ContentResult(NoContent, SourceError(version, "read", ErrRead),
                                         FALSE, TRUE)
    ELSE ContentResult(Bytes(got.reader), ReadOk(<<>>), FALSE, TRUE)

CallReadMigrationContent ==
    /\ Returned /\ result.step = "built"
    /\ \E v \in ReadVersions, d \in Directions, opened \in BOOLEAN, readable \in BOOLEAN :
         result' = [result EXCEPT
                       !.step = "content",
                       !.read = [arg |-> v, dir |-> d, opened |-> opened,
                                 readable |-> readable,
                                 ret |-> readMigrationContentOf(result.fs, v, d, opened,
                                                                readable)]]
    /\ UNCHANGED Arguments

NextContent == CallNewFSSource \/ CallReadMigrationContent

SpecContent == InitSource /\ [][NextContent]_vars

\* --------------------------------------------------- migration content
\* Longest content blob of the splitter fixtures, in characters.
MaxBlob == 5

\* A content blob is the sequence of its characters.
BlobChars == {"a", ";", " ", "\n", "-"}
Blobs == SeqsUpTo(BlobChars, MaxBlob)

InitSplit ==
    /\ Detached
    /\ call \in Blobs
    /\ result = NoCall

\* parseStatements(b), and parseStatements of its output joined again.
CallParseStatements ==
    /\ ~Returned
    /\ LET statements == parseStatements(call) IN
       result' = [statements |-> statements,
                  again |-> parseStatements(JoinStatements(statements))]
    /\ UNCHANGED Arguments

SpecSplit == InitSplit /\ [][CallParseStatements]_vars

\* ----------------------------------------------------------- checksum
CallChecksum ==
    /\ ~Returned
    /\ result' = [sum |-> checksum(call)]
    /\ UNCHANGED Arguments

SpecSum == InitSplit /\ [][CallChecksum]_vars


\* =================================================================== claims
\* Helpers over the per-call query log of an engine record.
Statements(st) == SelectSeq(st.log, LAMBDA x : x.q = "DDL")
Queries(st, q, ok) == {x.v : x \in {y \in Range(st.log) : y.q = q /\ y.ok = ok}}
AtRest(st) == st.pc = "done"
\* The versions of the Source without a ledger row when the call began.
PendingAtStart(st) == {v \in Versions : source[v] # "none" /\ v \notin st.start}
\* The m lowest / highest elements of a set of versions.
Lowest(S, m) == {v \in S : Cardinality({w \in S : w < v}) < m}
Highest(S, m) == {v \in S : Cardinality({w \in S : w > v}) < m}
UpCall(st) == st.op \in {"Up", "UpTo"} \/ (st.op = "Steps" /\ st.arg > 0)
\* The versions for which the Source holds a pair.
SourceVersions == {v \in Versions : source[v] # "none"}

\* C1 (as stated): in an up-only run from an empty ledger, at rest, the
\* ledger holds a row for v exactly when v's up migration ran all of its
\* statements to completion without a per-statement error.
CexC1 ==
    \A e \in active :
        (AtRest(eng[e]) /\ eng[e].start = {}) =>
            \A v \in Versions :
                NumStatements(v, "up") >= 1 => (v \in ledger <=> v \in eng[e].ran)

\* C1 (amended): in every state of an up-only run, a row gained by the call
\* belongs to a version whose statements all ran without error in that call,
\* rows present before the call are never re-run, and at rest a version
\* whose statements ran has its row exactly when neither the
\* schema-agreement wait nor the ledger insert for it failed.
ThmC1 ==
    \A e \in active :
        LET st == eng[e] IN
        /\ ledger = st.start \cup Queries(st, "INSERT", TRUE)
        /\ Queries(st, "INSERT", TRUE) \subseteq st.ran
        /\ st.ran \cap st.start = {}
        /\ \A v \in st.ran :
              \A i \in 1..NumStatements(v, "up") :
                  Entry("DDL", v, "up", i, TRUE) \in Range(st.log)
        /\ AtRest(st) =>
              \A v \in st.ran :
                  v \in ledger <=>
                      v \notin (Queries(st, "AWAIT", FALSE) \cup Queries(st, "INSERT", FALSE))

\* C1 witness: an Up came to rest having recorded one version while another
\* version ran all its statements and then failed to be recorded.
WitC1 ==
    \E e \in active :
        /\ AtRest(eng[e]) /\ eng[e].op = "Up"
        /\ ledger # {} /\ eng[e].ran \ ledger # {}

\* C2: when applyUp fails on the k-th pending migration, Up returns
\* (k-1, err), the ledger has gained exactly the first k-1 pending versions
\* and no statement of a later pending version was submitted.
ThmC2 ==
    \A e \in active :
        LET st == eng[e]
            k == st.idx IN
        (AtRest(st) /\ st.op = "Up" /\ st.ret.err # NoErr /\ st.idx >= 1) =>
            /\ st.plan = Asc(PendingAtStart(st))
            /\ k <= Len(st.plan)
            /\ st.ret.n = k - 1
            /\ ledger = st.start \cup {st.plan[j] : j \in 1..(k - 1)}
            /\ \A x \in Range(st.log) :
                  x.q \in {"DDL", "AWAIT", "INSERT"} /\ x.v # 0
                      => x.v \in {st.plan[j] : j \in 1..k}

\* C2 witness: Up failed on its second pending migration after a statement
\* of it had been submitted, with a third one still pending.
WitC2 ==
    \E e \in active :
        /\ AtRest(eng[e]) /\ eng[e].op = "Up" /\ eng[e].ret.err # NoErr
        /\ eng[e].idx = 2 /\ Len(eng[e].plan) = 3 /\ eng[e].ret.n = 1
        /\ eng[e].ret.err.kind = "MigrationError" /\ eng[e].ret.err.stmt >= 1

ThmC4 ==
    \A e \in active :
        LET st == eng[e]
            d == Statements(st) IN
        UpCall(st) =>
            /\ \A a \in 1..Len(d) : d[a].dir = "up"
            /\ \A a, b \in 1..Len(d) :
                  a < b => \/ d[a].v < d[b].v
                           \/ d[a].v = d[b].v /\ d[a].i < d[b].i
            /\ \A a \in 1..Len(d) :
                  d[a].i = IF a > 1 /\ d[a - 1].v = d[a].v THEN d[a - 1].i + 1 ELSE 1
            /\ \A a \in 2..Len(d) :
                  d[a - 1].v # d[a].v => d[a - 1].i = NumStatements(d[a - 1].v, "up")

\* C4 witness: one call submitted a two-statement migration and then a
\* statement of a higher version.
WitC4 ==
    \E e \in active :
        LET d == Statements(eng[e]) IN
        /\ UpCall(eng[e]) /\ Len(d) >= 3
        /\ \E a \in 1..Len(d) : d[a].i = 2
        /\ d[1].v # d[Len(d)].v


\* C5: DownTo(v) submits only down statements of versions above v, most
\* recent version first; when it returns a nil error the count returned is
\* the number of previously applied versions above v, each of them was
\* deleted from the ledger in descending order, and the ledger holds exactly
\* the previously applied versions that are <= v.
ThmC5 ==
    \A e \in active :
        LET st == eng[e]
            d == Statements(st)
            del == SelectSeq(st.log, LAMBDA x : x.q = "DELETE")
            above == {a \in st.start : a > st.arg} IN
        st.op = "DownTo" =>
            /\ \A x \in Range(st.log) :
                  x.q \in {"DDL", "AWAIT", "DELETE"} /\ x.v # 0
                      => x.dir = "down" /\ x.v > st.arg /\ x.v \in st.start
            /\ \A x \in Range(st.log) : x.q # "INSERT"
            /\ \A a, b \in 1..Len(d) :
                  a < b => \/ d[a].v > d[b].v
                           \/ d[a].v = d[b].v /\ d[a].i < d[b].i
            /\ \A a, b \in 1..Len(del) : a < b => del[a].v > del[b].v
            /\ ledger = st.start \ Queries(st, "DELETE", TRUE)
            /\ Queries(st, "DELETE", TRUE) = Highest(above, st.count)
            /\ (AtRest(st) /\ st.ret.err = NoErr) =>
                  /\ st.ret.n = Cardinality(above)
                  /\ ledger = {a \in st.start : a <= st.arg}

\* C5 witness: DownTo(1) returned (2, nil) over three applied versions.
WitC5 ==
    \E e \in active :
        /\ AtRest(eng[e]) /\ eng[e].op = "DownTo" /\ eng[e].arg = 1
        /\ eng[e].ret.err = NoErr /\ eng[e].ret.n = 2
        /\ ledger = {1} /\ Cardinality(eng[e].start) = 3

\* C6: UpTo(v) submits statements only of pending versions <= v; when it
\* returns a nil error the count returned is the number of pending versions
\* <= v, exactly those have gained a ledger row, and every pending version
\* above v is still without one.
ThmC6 ==
    \A e \in active :
        LET st == eng[e]
            upto == {p \in PendingAtStart(st) : p <= st.arg} IN
        st.op = "UpTo" =>
            /\ \A x \in Range(st.log) :
                  x.q \in {"DDL", "AWAIT", "INSERT"} /\ x.v # 0 => x.v \in upto
            /\ ledger = st.start \cup Lowest(upto, st.count)
            /\ (AtRest(st) /\ st.ret.err = NoErr) =>
                  /\ st.ret.n = Cardinality(upto)
                  /\ ledger = st.start \cup upto
                  /\ \A p \in PendingAtStart(st) : p > st.arg => p \notin ledger

\* C6 witness: UpTo(2) applied two versions and left a third one pending.
WitC6 ==
    \E e \in active :
        /\ AtRest(eng[e]) /\ eng[e].op = "UpTo" /\ eng[e].arg = 2
        /\ eng[e].ret.err = NoErr /\ eng[e].ret.n = 2
        /\ Cardinality(PendingAtStart(eng[e])) = 3 /\ ledger = {1, 2}


\* The versions Steps(n > 0) is to apply: the min(n, len(pending)) lowest.
StepsTargets(st) == Lowest(PendingAtStart(st), st.arg)

CexC8 ==
    \A e \in active :
        LET st == eng[e] IN
        (AtRest(st) /\ st.op = "Steps" /\ st.arg < 0) =>
            /\ (st.start = {} /\ ~st.faulted) => st.ret.err = ErrNoChange
            /\ (st.start # {} /\ st.ret.err = NoErr) =>
                  ledger = st.start \ Highest(st.start, -st.arg)

\* C9 (as stated): Steps(ctx, 0) submits no query, leaves the history table
\* and the ledger as they were, and returns nil.
CexC9 ==
    \A e \in active :
        LET st == eng[e] IN
        (st.op = "Steps" /\ st.arg = 0) =>
            /\ st.log = <<>>
            /\ tableExists = st.startTable
            /\ ledger = st.start
            /\ AtRest(st) => st.ret.err = NoErr

\* C10: Version and Applied submit only the existence probe and SELECTs,
\* never change the ledger or create the history table, and when the table
\* is absent they return (0, nil) and (nil, nil) after the probe alone.
ThmC10 ==
    \A e \in active :
        LET st == eng[e] IN
        st.op \in {"Version", "Applied"} =>
            /\ \A x \in Range(st.log) : x.q \in {"PROBE", "SELECT"}
            /\ ledger = st.start
            /\ tableExists = st.startTable
            /\ (AtRest(st) /\ ~st.startTable) =>
                  /\ st.ret = NoRet
                  /\ Len(st.log) = 1 /\ st.log[1].q = "PROBE"
            /\ (AtRest(st) /\ st.ret.err = NoErr /\ Len(st.log) = 2) =>
                  /\ st.op = "Version" => st.ret.ver = (IF ledger = {} THEN 0
                                                         ELSE -SetMin({-v : v \in ledger}))
                  /\ st.op = "Applied" => Range(st.ret.list) = ledger

\* C10 witness: Version returned (0, nil) with the history table absent.
WitC10 ==
    \E e \in active :
        /\ AtRest(eng[e]) /\ eng[e].op = "Version" /\ ~tableExists
        /\ eng[e].ret = NoRet /\ Len(eng[e].log) = 1

\* C11: the versions Pending returns (alone or within Status) have no ledger
\* row, are in ascending order, and, when every ledger version exists in the
\* Source, together with the ledger versions are the Source versions.
ThmC11 ==
    \A e \in active :
        LET st == eng[e]
            p == st.ret.pending IN
        (AtRest(st) /\ st.op \in {"Pending", "Status"} /\ st.ret.err = NoErr) =>
            /\ Range(p) \cap ledger = {}
            /\ \A a, b \in 1..Len(p) : a < b => p[a] < p[b]
            /\ ledger \subseteq SourceVersions => Range(p) \cup ledger = SourceVersions

\* C11 witness: Pending returned two versions while a third Source version
\* had its ledger row.
WitC11 ==
    \E e \in active :
        /\ AtRest(eng[e]) /\ eng[e].op = "Pending" /\ eng[e].ret.err = NoErr
        /\ Len(eng[e].ret.pending) = 2 /\ Cardinality(ledger) = 1
        /\ ledger \subseteq SourceVersions

\* The highest version with a ledger row, 0 when there is none.
LedgerMax == IF ledger = {} THEN 0 ELSE CHOOSE v \in ledger : \A w \in ledger : w <= v

LastQuery(st) == st.log[Len(st.log)]

\* C13: a statement the driver fails ends the call at once with the
\* MigrationError of its version, direction, 1-based index and the driver
\* error; the statements before it were submitted and succeeded, none after
\* it and no schema-agreement wait or ledger write for that version was
\* submitted, and the version's ledger row is as it was (absent for up,
\* present for down).
ThmC13 ==
    \A e \in active :
        LET st == eng[e]
            err == st.ret.err IN
        /\ \A k \in 1..Len(st.log) :
              (st.log[k].q = "DDL" /\ ~st.log[k].ok) =>
                  /\ k = Len(st.log) /\ AtRest(st)
                  /\ err = MigrationError(st.log[k].v, st.log[k].dir, st.log[k].i, "driver")
        /\ (AtRest(st) /\ err.kind = "MigrationError" /\ err.stmt >= 1) =>
              /\ err.inner = "driver"
              /\ err.stmt <= NumStatements(err.version, err.dir)
              /\ LastQuery(st) = Entry("DDL", err.version, err.dir, err.stmt, FALSE)
              /\ \A j \in 1..(err.stmt - 1) :
                    Entry("DDL", err.version, err.dir, j, TRUE) \in Range(st.log)
              /\ \A x \in Range(st.log) :
                    x.v = err.version => x.q = "DDL" /\ x.i <= err.stmt
              /\ err.version \in ledger <=> err.version \in st.start
              /\ err.version \in ledger <=> err.dir = "down"

\* C13 witness: a rollback failed on the second statement of the down
\* migration of an applied version.
WitC13 ==
    \E e \in active :
        /\ AtRest(eng[e]) /\ eng[e].ret.err.kind = "MigrationError"
        /\ eng[e].ret.err.dir = "down" /\ eng[e].ret.err.stmt = 2
        /\ eng[e].ret.err.version \in ledger

\* The call is no longer inside applyUp / applyDown of version v.
Left(st, v) == AtRest(st) \/ st.cur # v

\* C14 (as stated): once the last statement of v's up migration has
\* succeeded, applyUp does not return before the ledger insert for v was
\* attempted.
CexC14 ==
    \A e \in active :
        LET st == eng[e] IN
        UpCall(st) =>
            \A v \in st.ran :
                (NumStatements(v, "up") >= 1 /\ Left(st, v)) =>
                    v \in Queries(st, "INSERT", TRUE) \cup Queries(st, "INSERT", FALSE)

\* C14 (amended): once the last statement of v's up migration has
\* succeeded, applyUp does not return before the ledger insert for v was
\* attempted, unless the schema-agreement wait is enabled and failed for v,
\* in which case no insert for v is attempted; a failed insert ends the call
\* with an error that is not a MigrationError, it is the last query of the
\* call (no statement is undone), every statement of v was submitted and
\* succeeded, and v has no ledger row.
ThmC14 ==
    \A e \in active :
        LET st == eng[e]
            tried == Queries(st, "INSERT", TRUE) \cup Queries(st, "INSERT", FALSE) IN
        UpCall(st) =>
            /\ \A v \in st.ran :
                  Left(st, v) =>
                      /\ v \in tried <=> v \notin Queries(st, "AWAIT", FALSE)
                      /\ ~wait => v \in tried
            /\ \A v \in Queries(st, "INSERT", FALSE) :
                  /\ AtRest(st)
                  /\ LastQuery(st) = Entry("INSERT", v, "up", 0, FALSE)
                  /\ st.ret.err = WrappedErr("record migration", v)
                  /\ st.ret.err.kind # "MigrationError"
                  /\ \A i \in 1..NumStatements(v, "up") :
                        Entry("DDL", v, "up", i, TRUE) \in Range(st.log)
                  /\ v \notin ledger

\* C14 witness: the ledger insert failed for a version whose two up
\* statements had both succeeded.
WitC14 ==
    \E e \in active, v \in Versions :
        /\ AtRest(eng[e]) /\ UpCall(eng[e])
        /\ NumStatements(v, "up") = 2
        /\ v \in Queries(eng[e], "INSERT", FALSE)
        /\ v \in eng[e].ran /\ v \notin ledger

\* Both concurrent Up calls have returned.
Quiescent == \A e \in active : AtRest(eng[e])
\* The Source pairs that have no up half.
NoUpHalf == {v \in SourceVersions : ~HasUp(v)}

\* C15 (as stated): two engines run Up concurrently and no query fails; at
\* quiescence both calls have returned nil and the ledger holds exactly the
\* Source versions.
CexC15 ==
    Quiescent =>
        /\ \A e \in active : eng[e].ret.err = NoErr
        /\ ledger = SourceVersions

\* C15 (amended): two engines run Up concurrently and no query fails.  An
\* engine submits the ledger insert only for a version all of whose
\* statements it executed itself.  At quiescence, when every Source pair has
\* an up half both calls have returned nil and the ledger holds exactly the
\* Source versions; when some pair has none, both calls have returned the
\* MigrationError (ErrMissingUp) of the lowest such pair and the ledger holds
\* exactly the Source versions below it.
ThmC15 ==
    /\ \A e \in active :
          \A x \in Range(eng[e].log) :
              x.q = "INSERT" =>
                  /\ x.ok
                  /\ \A i \in 1..NumStatements(x.v, "up") :
                        Entry("DDL", x.v, "up", i, TRUE) \in Range(eng[e].log)
    /\ ledger \subseteq SourceVersions
    /\ Quiescent =>
          IF NoUpHalf = {}
          THEN /\ \A e \in active : eng[e].ret.err = NoErr
               /\ ledger = SourceVersions
          ELSE /\ \A e \in active :
                     eng[e].ret.err = MigrationError(SetMin(NoUpHalf), "up", 0, "ErrMissingUp")
               /\ ledger = {v \in SourceVersions : v < SetMin(NoUpHalf)}

\* C15 witness: both engines executed the statements of the same version
\* and both inserted its ledger row; both calls returned nil and the ledger
\* holds the three Source versions.
WitC15 ==
    /\ Quiescent /\ ledger = Versions
    /\ \A e \in active : eng[e].ret.err = NoErr
    /\ \E v \in Versions :
          /\ NumStatements(v, "up") >= 1
          /\ \A e \in active :
                /\ Entry("DDL", v, "up", 1, TRUE) \in Range(eng[e].log)
                /\ Entry("INSERT", v, "up", 0, TRUE) \in Range(eng[e].log)

\* C16: a statement of v's up migration in flight when the context is
\* cancelled fails and ends the call with an error; v then has no ledger
\* row, the Pending that follows reports v, and the Up that follows submits
\* statement 1 of v as its first statement and, none of its queries
\* failing, runs every statement of v and records v.
ThmC16 ==
    \A e \in active :
        LET st == eng[e]
            v == st.prevFail.version
            d == Statements(st) IN
        /\ \A x \in Range(st.log) :
              (x.q = "DDL" /\ x.dir = "up" /\ ~x.ok) =>
                  AtRest(st) /\ st.ret.err # NoErr /\ x.v \notin ledger
        /\ st.prevFail # NoErr =>
              /\ v \notin st.start
              /\ (AtRest(st) /\ st.op = "Pending" /\ st.ret.err = NoErr) =>
                    v \in Range(st.ret.pending)
              /\ st.op = "Up" =>
                    /\ d # <<>> => d[1].v = v /\ d[1].dir = "up" /\ d[1].i = 1
                    /\ (AtRest(st) /\ ~st.faulted) =>
                          /\ v \in st.ran /\ v \in ledger
                          /\ \A i \in 1..NumStatements(v, "up") :
                                Entry("DDL", v, "up", i, TRUE) \in Range(st.log)

\* C16 witness: an Up that follows a call cut off in the second statement
\* of a version has run both statements of that version and recorded it.
WitC16 ==
    \E e \in active :
        /\ AtRest(eng[e]) /\ eng[e].op = "Up" /\ eng[e].ret.err = NoErr
        /\ eng[e].prevFail.kind = "MigrationError" /\ eng[e].prevFail.stmt = 2
        /\ eng[e].prevFail.version \in ledger
        /\ Len(Statements(eng[e])) >= 2

\* C17: no statement of a half the Source lacks is ever submitted.  A call
\* that ends with a MigrationError of Statement 0 reports ErrMissingUp for
\* an up of a pair without up half, ErrVersionNotFound for a down of a
\* version the Source lacks and ErrMissingDown for a down of a pair without
\* down half; it submitted no query for that version and the ledger row of
\* the version is as before (still present for a down).  An Up whose
\* queries all succeed fails so on the lowest pending pair without up half,
\* and a Down whose queries all succeed on the highest applied version when
\* the Source lacks it or its down half.
ThmC17 ==
    \A e \in active :
        LET st == eng[e]
            err == st.ret.err
            v == err.version
            noUp == {p \in PendingAtStart(st) : ~HasUp(p)} IN
        /\ \A x \in Range(st.log) :
              x.q = "DDL" => IF x.dir = "up" THEN HasUp(x.v) ELSE HasDown(x.v)
        /\ (AtRest(st) /\ err.kind = "MigrationError" /\ err.stmt = 0) =>
              /\ err.dir = "up" =>
                    err.inner = "ErrMissingUp" /\ v \in SourceVersions /\ ~HasUp(v)
              /\ err.dir = "down" =>
                    IF v \notin SourceVersions
                    THEN err.inner = "ErrVersionNotFound"
                    ELSE err.inner = "ErrMissingDown" /\ ~HasDown(v)
              /\ \A x \in Range(st.log) : x.v # v
              /\ v \in ledger <=> v \in st.start
              /\ v \in ledger <=> err.dir = "down"
        /\ (AtRest(st) /\ st.op = "Up" /\ ~st.faulted /\ noUp # {}) =>
              err = MigrationError(SetMin(noUp), "up", 0, "ErrMissingUp")
        /\ (AtRest(st) /\ st.op = "Steps" /\ st.arg = -1 /\ ~st.faulted
                /\ st.start # {} /\ \A t \in Highest(st.start, 1) : ~HasDown(t)) =>
              /\ ledger = st.start
              /\ err = MigrationError(CHOOSE t \in Highest(st.start, 1) : TRUE, "down", 0,
                                       IF Highest(st.start, 1) \subseteq SourceVersions
                                       THEN "ErrMissingDown" ELSE "ErrVersionNotFound")

\* C17 witness: a Down over an applied version that the Source does not
\* contain returned ErrVersionNotFound and left the version applied.
WitC17 ==
    \E e \in active :
        LET err == eng[e].ret.err IN
        /\ AtRest(eng[e]) /\ eng[e].op = "Steps" /\ eng[e].arg = -1
        /\ err.kind = "MigrationError" /\ err.inner = "ErrVersionNotFound"
        /\ err.version \in ledger /\ source[err.version] = "none"

\* C18: New returns ErrNoSession for a nil session whatever the options;
\* otherwise the error of the first option that returns one; otherwise
\* ErrNoSource when the options leave no source configured; otherwise
\* ErrNoKeyspace when they leave the keyspace empty; and a Migrator, with
\* that session, source and keyspace, exactly when none of these applies.
ThmC18 ==
    Returned =>
        LET opts == call.opts
            errs == {i \in 1..Len(opts) : ApplyOption(NilMigrator, opts[i]).err # "nil"}
            srcs == {i \in 1..Len(opts) : opts[i].name \in {"WithSource", "WithFS", "WithDir"}}
            kss == {i \in 1..Len(opts) : opts[i].name = "WithKeyspace"}
            last(S) == CHOOSE i \in S : \A j \in S : j <= i
            hasSource == srcs # {} /\ opts[last(srcs)].arg # "nil"
            hasKeyspace == kss # {} /\ opts[last(kss)].arg # ""
        IN  /\ result.err =
                  IF call.session = "nil" THEN "ErrNoSession"
                  ELSE IF errs # {} THEN ApplyOption(NilMigrator, opts[SetMin(errs)]).err
                  ELSE IF ~hasSource THEN "ErrNoSource"
                  ELSE IF ~hasKeyspace THEN "ErrNoKeyspace"
                  ELSE "nil"
            /\ result.ok <=> result.err = "nil"
            /\ ~result.ok => result.m = NilMigrator
            /\ result.ok =>
                  /\ result.m.session = call.session /\ call.session # "nil"
                  /\ result.m.source = opts[last(srcs)].arg
                  /\ result.m.keyspace = opts[last(kss)].arg

\* C18 witness: New with a session and options that set neither a source
\* nor a keyspace returned ErrNoSource.
WitC18 ==
    /\ Returned /\ call.session = "session" /\ Len(call.opts) = MaxOpts
    /\ \A i \in 1..Len(call.opts) :
          call.opts[i].name \in {"WithHistoryTable", "WithSchemaAgreement"}
    /\ result.err = "ErrNoSource"

\* C19: for every sentinel s and every chain of MigrationError, SourceError
\* and ParseError wrappers around s, errors.Is(chain, s) is true, and
\* errors.Is(chain, t) is false for every sentinel t whose value differs
\* from that of s, ErrNoChange among them.
ThmC19 ==
    Returned =>
        /\ result.s
        /\ Sentinel[call.t] # Sentinel[call.s] => ~result.t
        /\ (call.t = "ErrNoChange" /\ call.s # "ErrNoChange") => ~result.t

\* C19 witness: a chain with the three wrapper types nested around
\* ErrMissingUp matched ErrMissingUp and did not match ErrNoChange.
WitC19 ==
    /\ Returned /\ result.s /\ ~result.t
    /\ Len(call.wrappers) = 3 /\ Range(call.wrappers) = Wrappers
    /\ call.s = "ErrMissingUp" /\ call.t = "ErrNoChange"

\* The number a digit run denotes in decimal.
RECURSIVE Decimal(_)
Decimal(ds) ==
    IF ds = <<>> THEN 0
    ELSE 10 * Decimal(SubSeq(ds, 1, Len(ds) - 1)) + DigitValue[ds[Len(ds)]]

\* The leading digits of the file name of the call.
LeadingDigits == SubSeq(call, 1, DigitRun(call))

\* C20 (as stated): for every file name, whatever the length of its digit
\* run, IsMigrationFile is true exactly when ParseMigration succeeds.
CexC20 == Returned => (result.is <=> result.parse.ok)

\* C20 (amended): ParseMigration succeeds exactly when IsMigrationFile is
\* true and the digit run denotes a number that fits the unsigned 64-bit
\* type, and then yields that number as the version; for a file name whose
\* digit run overflows, IsMigrationFile is true and ParseMigration fails
\* with a ParseError carrying the range error.
ThmC20 ==
    Returned =>
        LET fits == Decimal(LeadingDigits) <= UintMax IN
        /\ result.parse.ok <=> (result.is /\ fits)
        /\ fits => (result.is <=> result.parse.ok)
        /\ result.parse.ok => result.parse.m.version = Decimal(LeadingDigits)
        /\ (result.is /\ ~fits) => result.parse.err = "ParseError: value out of range"
        /\ ~result.is => result.parse.err = "ParseError"

\* C20 witness: a file name with leading zeros and a description holding a
\* further suffix was accepted by both functions.
WitC20 ==
    /\ Returned /\ result.is /\ result.parse.ok
    /\ DigitRun(call) = MaxDigits /\ call[1] = "0"
    /\ result.parse.m.version = 9
    /\ result.parse.m.direction = "down" /\ Len(result.parse.m.description) > 1

\* A digit run without its leading zeros.
RECURSIVE StripZeros(_)
StripZeros(ds) == IF ds # <<>> /\ Head(ds) = "0" THEN StripZeros(Tail(ds)) ELSE ds

\* C21: for a file name that matches the pattern, ParseMigration yields the
\* decimal value of the leading digit run as the version when that value
\* is at most the largest unsigned value (0 included, leading zeros without
\* effect, the largest value itself accepted), and when the value is larger
\* it yields no Migration but a ParseError that carries the file name and
\* the range error.
ThmC21 ==
    (Returned /\ result.is) =>
        LET ds == LeadingDigits
            r == result.parse IN
        IF Decimal(ds) <= UintMax
        THEN /\ r.ok /\ r.err = "nil"
             /\ r.m.version = Decimal(ds)
             /\ r.m.version = Decimal(StripZeros(ds))
             /\ r.m.raw = call
        ELSE /\ ~r.ok /\ r.m = NoMigration
             /\ r.err = "ParseError: value out of range"
             /\ r.filename = call

\* C21 witness: a digit run with a leading zero that denotes the largest
\* unsigned value was parsed to that value.
WitC21 ==
    /\ Returned /\ result.is /\ result.parse.ok
    /\ LeadingDigits = <<"0", "1", "5">>
    /\ result.parse.m.version = UintMax

\* The versions the migration files of the directory of the call denote.
DirVersions ==
    {Decimal(SubSeq(call[i].name, 1, DigitRun(call[i].name))) :
        i \in {j \in 1..Len(call) : ~call[j].isDir /\ IsMigrationFile(call[j].name)}}

\* C22: for every directory from which the Source could be built, List
\* returns one pair for each version a migration file of the directory
\* denotes, strictly ascending by version (so no version twice); Versions
\* returns the versions of those pairs in the same order; and an
\* assignment by the caller to the slice Versions returned leaves what
\* List returns as it was.
ThmC22 ==
    (Returned /\ result.step \in {"listed", "copied", "written"}) =>
        LET l == result.list IN
        /\ \A a, b \in 1..Len(l) : a < b => l[a].version < l[b].version
        /\ {l[a].version : a \in 1..Len(l)} = DirVersions
        /\ result.step = "copied" =>
              result.versions = [a \in 1..Len(l) |-> l[a].version]
        /\ result.step = "written" =>
              /\ FSSourceList(result.fs) = l
              /\ result.fs.versions = [a \in 1..Len(l) |-> l[a].version]

\* C22 witness: a directory listing a higher version first and the two
\* halves of a lower version under digit runs that differ in a leading zero
\* gave two pairs in ascending order, and the caller then wrote to the
\* slice Versions returned.
WitC22 ==
    /\ Returned /\ result.step = "written"
    /\ Len(call) = 3 /\ Len(result.list) = 2
    /\ ParseMigration(call[1].name).m.version = result.list[2].version
    /\ result.list[1].up # NoMigration /\ result.list[1].down # NoMigration
    /\ result.list[1].up.raw[1] # result.list[1].down.raw[1]

\* C25: for every blob, the statements parseStatements yields, joined with
\* ';' and a newline after each and parsed again, are the same statements,
\* character for character (and so also modulo whitespace).
ThmC25 == Returned => result.again = result.statements

\* C25 witness: a blob of two statements that is not itself the joined
\* form came back unchanged from the round trip.
WitC25 ==
    /\ Returned /\ Len(result.statements) = 2 /\ result.again = result.statements
    /\ call # JoinStatements(result.statements)

\* The line-based reference of the splitter, by positions of lines: the
\* kept lines, the kept lines that terminate a statement, the kept lines
\* that begin one, and the text of the statement begun at line i.
RefLines == SplitLines(call, <<>>)
RefKept ==
    {i \in 1..Len(RefLines) :
        /\ TrimSpace(RefLines[i]) # <<>>
        /\ ~HasPrefix(TrimSpace(RefLines[i]), <<"-", "-">>)}
RefEnds == {i \in RefKept : HasSuffix(TrimSpace(RefLines[i]), <<";">>)}
RefStarts ==
    {i \in RefKept : \A j \in RefKept : j < i => \E e \in RefEnds : j <= e /\ e < i}
RefGroup(i) == {k \in RefKept : k >= i /\ \A e \in RefEnds : e >= i => k <= e}
RECURSIVE RefJoin(_)
RefJoin(ks) ==
    IF ks = <<>> THEN <<>> ELSE RefLines[Head(ks)] \o <<"\n">> \o RefJoin(Tail(ks))
RefStatement(i) ==
    LET text == TrimSpace(RefJoin(Asc(RefGroup(i)))) IN
    IF \E e \in RefEnds : e >= i THEN TrimSpace(TrimSuffix(text, <<";">>)) ELSE text
Reference ==
    LET starts == Asc(RefStarts) IN
    SelectSeq([n \in 1..Len(starts) |-> RefStatement(starts[n])],
              LAMBDA t : t # <<>>)

\* C26 as stated, its last consequence: an input made of ';' characters
\* only yields zero statements.  Violated by ";;", which yields ";".
CexC26 == (Returned /\ Range(call) = {";"}) => result.statements = <<>>

\* C26: parseStatements equals the line-based reference (blank and '--'
\* lines dropped, a statement ends only at a kept line whose trimmed text
\* ends with ';', exactly one trailing ';' removed, a final unterminated
\* run emitted); no emitted statement is empty or has leading or trailing
\* white space; and an input whose every line is blank, a comment or a
\* single ';' yields zero statements.
ThmC26 ==
    Returned =>
        /\ result.statements = Reference
        /\ \A n \in 1..Len(result.statements) :
              /\ result.statements[n] # <<>>
              /\ TrimSpace(result.statements[n]) = result.statements[n]
        /\ (\A i \in RefKept : TrimSpace(RefLines[i]) = <<";">>)
              => result.statements = <<>>

\* C26 witness: a line with several ';' ended one statement, which keeps
\* all but the last ';'.
WitC26 ==
    /\ Returned /\ Len(result.statements) = 1
    /\ ";" \in Range(result.statements[1])
    /\ "a" \in Range(result.statements[1])

\* C24: for every content, checksum returns a string of exactly 64
\* lowercase hexadecimal characters.  Violated by every content: the
\* digest is MD5, whose 16 bytes encode to 32 characters.
CexC24 ==
    Returned =>
        /\ Len(result.sum) = 64
        /\ Range(result.sum) \subseteq Range(HexDigits)

\* The texts of the statements the call handed to the driver for version v.
SentFor(st, v) ==
    LET xs == SelectSeq(st.sent, LAMBDA x : x.v = v) IN
    [i \in 1..Len(xs) |-> xs[i].text]

\* What the Source holds for the up half of each version: the hex digest
\* of its bytes and the statements parseStatements splits them into.
UpDigest == [v \in Versions |-> checksum(Content(v, "up"))]
UpStatements == [v \in Versions |-> parseStatements(Content(v, "up"))]

\* C23: whenever applyUp(v) has returned nil in the running call, the
\* history table holds a row for v whose checksum is the hex digest of the
\* bytes the Source holds for v's up half, the statements executed for v
\* are those bytes split by parseStatements, and the row's description is
\* the pair's description.
ThmC23 ==
    \A e \in active :
        LET st == eng[e] IN
        \A v \in Queries(st, "INSERT", TRUE) :
            /\ v \in ledger /\ v \in DOMAIN history
            /\ history[v].checksum = UpDigest[v]
            /\ SentFor(st, v) = UpStatements[v]
            /\ history[v].description = Description(v)

\* C23 witness: applyUp returned nil for a version of two statements and
\* its row is in the history table.
WitC23 ==
    \E e \in active, v \in Versions :
        /\ v \in Queries(eng[e], "INSERT", TRUE)
        /\ Len(SentFor(eng[e], v)) = 2
        /\ v \in DOMAIN history
        /\ history[v].checksum = UpDigest[v]

\* The up half of version v holds no statement (empty, blank or comments).
NoStatement(v) == UpStatements[v] = <<>>

\* C27 as stated: the row written for an up migration without statements
\* has execution_ms = 0.  Violated when the schema-agreement wait, which
\* the measured time includes, takes a millisecond or more.
CexC27 ==
    \A e \in active, v \in Versions :
        (NoStatement(v) /\ v \in Queries(eng[e], "INSERT", TRUE)) =>
            history[v].execution_ms = 0

\* C27: for an up migration whose content yields no statement, applyUp
\* submits no DDL statement and still writes the row of the version with
\* the checksum of the content, so that the version is no longer pending;
\* its execution_ms is the time the schema-agreement wait took, and 0 when
\* the wait is disabled.
ThmC27 ==
    \A e \in active, v \in Versions :
        LET st == eng[e] IN
        NoStatement(v) =>
            /\ \A x \in Range(st.log) : ~(x.q = "DDL" /\ x.v = v)
            /\ v \in Queries(st, "INSERT", TRUE) =>
                  /\ v \in ledger /\ v \in DOMAIN history
                  /\ v \notin Range(pendingPairs(Asc(ledger)))
                  /\ history[v].checksum = UpDigest[v]
                  /\ history[v].execution_ms \in latency
                  /\ ~wait => history[v].execution_ms = 0
                  /\ wait => Entry("AWAIT", v, "up", 0, TRUE) \in Range(st.log)

\* C27 witness: the row of a version without statements was written after
\* a schema-agreement wait of one millisecond.
WitC27 ==
    \E e \in active, v \in Versions :
        /\ NoStatement(v) /\ v \in Queries(eng[e], "INSERT", TRUE)
        /\ v \in DOMAIN history /\ history[v].execution_ms = 1
        /\ history[v].checksum = UpDigest[v]

\* C28 as stated, its last part: a session-level error of the existence
\* probe reaches the caller as an error.  Violated: it is reported as
\* "does not exist" like every other error.
CexC28 ==
    \A e \in active :
        LET st == eng[e] IN
        (AtRest(st) /\ st.op \in {"Version", "Applied"} /\ ~st.log[1].ok) =>
            st.ret.err # NoErr

\* C28: historyTableExists reports every error of the existence probe, the
\* driver's no-row signal and a session-level error alike, as "does not
\* exist" (false with a nil error), so that Version and Applied return
\* (0, nil) and (nil, nil) after the probe alone; it reports true only when
\* a row was scanned; and no error of the probe reaches the caller.
ThmC28 ==
    \A e \in active :
        LET st == eng[e] IN
        (st.op \in {"Version", "Applied"} /\ st.log # <<>>) =>
            /\ st.log[1].q = "PROBE"
            /\ (~st.log[1].ok \/ ~st.startTable) =>
                  AtRest(st) /\ st.ret = NoRet /\ Len(st.log) = 1
            /\ (st.log[1].ok /\ st.startTable) =>
                  st.pc = "selApplied" \/ Len(st.log) = 2
            /\ st.ret.err # NoErr =>
                  Len(st.log) = 2 /\ st.log[2].q = "SELECT" /\ ~st.log[2].ok

\* C28 witness: the probe failed with a session error while the history
\* table exists, and Version returned (0, nil).
WitC28 ==
    \E e \in active :
        /\ AtRest(eng[e]) /\ eng[e].op = "Version" /\ tableExists
        /\ ~eng[e].log[1].ok /\ eng[e].ret = NoRet

\* The sentinel a missing half is reported with, and the Op of the read.
MissingHalf(d) ==
    ErrorValue(IF d = "up" THEN Sentinel.ErrMissingUp ELSE Sentinel.ErrMissingDown)
ReadOp(d) == IF d = "up" THEN "read up" ELSE "read down"
HalfOf(pair, d) == IF d = "up" THEN pair.up ELSE pair.down

\* C29: ReadUp / ReadDown of version v return a SourceError tagged with v
\* and "read up" / "read down" that wraps ErrVersionNotFound when the
\* Source has no pair for v and ErrMissingUp / ErrMissingDown when the pair
\* lacks that half; errors.Is tells the two cases apart; a reader is
\* returned only when the half exists; and the read leaves the pairs and
\* versions of the Source as scan built them.
ThmC29 ==
    (Returned /\ result.step = "read") =>
        LET v == result.read.arg
            d == result.read.dir
            r == result.read.ret
            src == result.fs
            notFound == ErrorValue(Sentinel.ErrVersionNotFound) IN
        /\ src = scan(call)
        /\ v \notin DOMAIN src.migrations =>
              /\ r = SourceError(v, ReadOp(d), notFound)
              /\ ErrorsIs(r.err, notFound) /\ ~ErrorsIs(r.err, MissingHalf(d))
        /\ (v \in DOMAIN src.migrations
                /\ HalfOf(src.migrations[v], d) = NoMigration) =>
              /\ r = SourceError(v, ReadOp(d), MissingHalf(d))
              /\ ErrorsIs(r.err, MissingHalf(d)) /\ ~ErrorsIs(r.err, notFound)
        /\ r.reader # <<>> =>
              /\ r.err = NilError
              /\ v \in DOMAIN src.migrations
              /\ HalfOf(src.migrations[v], d) # NoMigration
              /\ r.reader = HalfOf(src.migrations[v], d).raw
        /\ r.err # NilError => r.reader = <<>> /\ r.version = v /\ r.op = ReadOp(d)

\* C29 witness: ReadUp of a version whose pair has only a down half
\* returned the SourceError that wraps ErrMissingUp.
WitC29 ==
    /\ Returned /\ result.step = "read" /\ result.read.dir = "up"
    /\ result.read.arg \in DOMAIN result.fs.migrations
    /\ result.fs.migrations[result.read.arg].up = NoMigration
    /\ ErrorsIs(result.read.ret.err, ErrorValue(Sentinel.ErrMissingUp))

\* C30: a subcommand that finds nothing to apply (up) or nothing to roll
\* back (down) exits 0, for every value of -n, and a subcommand exits
\* non-zero exactly when the engine operation returned an error other than
\* the no-op.  Violated by `up -n 1` with nothing pending: Steps returns
\* ErrNoChange, which upCmd returns as an error.
CexC30 ==
    \A e \in active :
        LET st == eng[e] IN
        (AtRest(st) /\ st.cli # "") =>
            /\ (st.cli = "up" /\ PendingAtStart(st) = {} /\ ~st.faulted) => st.exit = 0
            /\ (st.cli = "down" /\ st.start = {} /\ st.flag >= 0 /\ ~st.faulted)
                  => st.exit = 0
            /\ st.exit # 0 <=> st.ret.err \notin {NoErr, ErrNoChange}

\* The step inserts the row of v: the engine was at the ledger insert of
\* applyUp(v), the INSERT succeeded and applyUp returned nil (applied++).
InsertedBy(e, v) ==
    /\ eng[e].pc = "record" /\ eng[e].cur = v /\ eng[e].dir = "up"
    /\ LastQuery(eng'[e]) = Entry("INSERT", v, "up", 0, TRUE)
    /\ eng'[e].count = eng[e].count + 1

\* The step deletes the row of v: the engine was at the ledger delete of
\* applyDown(v), the DELETE succeeded and applyDown returned nil.
DeletedBy(e, v) ==
    /\ eng[e].pc = "remove" /\ eng[e].cur = v /\ eng[e].dir = "down"
    /\ LastQuery(eng'[e]) = Entry("DELETE", v, "down", 0, TRUE)
    /\ eng'[e].count = eng[e].count + 1

\* C31: in a run of one engine, every step that adds the row of v is the
\* successful ledger insert of an applyUp(v) that returns nil, every step
\* that removes it is the successful ledger delete of an applyDown(v) that
\* returns nil, and every step leaves the rows of all other versions, and
\* the columns of every row that stays, as they were.
ThmC31 ==
    [][ /\ DOMAIN history' = ledger'
        /\ \A v \in Versions :
              /\ (v \in ledger' /\ v \notin ledger) => \E e \in active : InsertedBy(e, v)
              /\ (v \in ledger /\ v \notin ledger') => \E e \in active : DeletedBy(e, v)
              /\ (v \in ledger /\ v \in ledger') => history'[v] = history[v]
        /\ Cardinality((ledger' \ ledger) \cup (ledger \ ledger')) <= 1 ]_vars

\* C31 witness: a call rolled back one version (its row is gone) while
\* the row of another version, written by an earlier call, is still there.
WitC31 ==
    \E e \in active :
        /\ Queries(eng[e], "DELETE", TRUE) # {}
        /\ ledger # {} /\ ledger \subseteq eng[e].start

\* The positions in the log of the call at which a query q for version v
\* was submitted.
At(st, q, v) == {k \in 1..Len(st.log) : st.log[k].q = q /\ st.log[k].v = v}

\* C32: with waitForSchemaAgreement, every ledger insert or delete of a
\* migration directly follows the one schema-agreement wait of that
\* migration, which follows its last statement; no statement of the file
\* follows a wait; a failed wait ends the call with the wrapped error and
\* no ledger write for that version.  Without waitForSchemaAgreement the
\* call submits no schema-agreement wait at all, the creation of the
\* history table included.
ThmC32 ==
    \A e \in active :
        LET st == eng[e] IN
        /\ ~wait => \A k \in 1..Len(st.log) : st.log[k].q # "AWAIT"
        /\ wait =>
              \A v \in Versions :
                  /\ Cardinality(At(st, "AWAIT", v)) <= 1
                  /\ \A k \in At(st, "INSERT", v) \cup At(st, "DELETE", v) :
                        /\ k - 1 \in At(st, "AWAIT", v) /\ st.log[k - 1].ok
                        /\ Len(Parsed[Content(v, st.log[k].dir)]) >= 1 =>
                              st.log[k - 2] =
                                  Entry("DDL", v, st.log[k].dir,
                                        Len(Parsed[Content(v, st.log[k].dir)]), TRUE)
                  /\ \A k \in At(st, "AWAIT", v), j \in At(st, "DDL", v) : j < k
                  /\ \A k \in At(st, "AWAIT", v) :
                        ~st.log[k].ok =>
                            /\ k = Len(st.log) /\ AtRest(st)
                            /\ st.ret.err = WrappedErr("schema agreement", v)
                            /\ (v \in ledger) = (v \in st.start)
        /\ (wait /\ Len(st.log) >= 2 /\ st.log[1] = Entry("CREATE", 0, "", 0, TRUE))
              => st.log[2].q = "AWAIT"

\* C32 witness: with waitForSchemaAgreement a migration of two statements
\* was applied: statement 1, statement 2, one wait, the ledger insert.
WitC32 ==
    \E e \in active, v \in Versions, k \in 1..20 :
        /\ wait /\ k + 3 <= Len(eng[e].log)
        /\ eng[e].log[k] = Entry("DDL", v, "up", 1, TRUE)
        /\ eng[e].log[k + 1] = Entry("DDL", v, "up", 2, TRUE)
        /\ eng[e].log[k + 2] = Entry("AWAIT", v, "up", 0, TRUE)
        /\ eng[e].log[k + 3] = Entry("INSERT", v, "up", 0, TRUE)

\* The migration files of the directory whose version does not fit 64
\* bits (UintWidth bits here).
Overflowing ==
    {i \in 1..Len(call) :
        /\ ~call[i].isDir /\ IsMigrationFile(call[i].name)
        /\ Decimal(SubSeq(call[i].name, 1, DigitRun(call[i].name))) > UintMax}

\* C33 as stated: for every readable directory NewFSSource succeeds.
\* Violated by a directory with a file whose name has the form of a
\* migration file and a version beyond the 64-bit range.
CexC33 == Returned => result.step # "failed"

\* C33: NewFSSource over a readable directory fails exactly when the
\* directory holds a file whose name has the form of a migration file
\* and whose version is out of range, and then with the ParseError of
\* that name; directories and names of any other form are skipped, and
\* when it succeeds the Source holds exactly the versions of the migration
\* files.
ThmC33 ==
    Returned =>
        /\ result.step = "failed" <=> Overflowing # {}
        /\ result.step = "failed" =>
              /\ ~result.fs.ok
              /\ result.fs.err = "ParseError: value out of range"
        /\ result.step # "failed" =>
              /\ result.fs.err = "nil"
              /\ DOMAIN result.fs.migrations = DirVersions
        /\ result.step = "listed" =>
              {result.list[a].version : a \in 1..Len(result.list)} = DirVersions

\* C33 witness: the build failed on a directory that holds a subdirectory,
\* a name of another form and a migration file with a version out of range.
WitC33 ==
    /\ Returned /\ result.step = "failed" /\ Len(call) = 3
    /\ \E i \in 1..3 : call[i].isDir
    /\ \E i \in 1..3 : ~call[i].isDir /\ ~IsMigrationFile(call[i].name)

\* C34: for any two differently named sentinels s and t, errors.Is(s, t)
\* is false.  Violated by ErrMissingVersion and ErrVersionNotFound, which
\* are declared with the same message and so are equal values.
CexC34 ==
    (Returned /\ call.wrappers = <<>> /\ call.s # call.t) => ~result.t

\* C35: the pending migrations of Up are the Source versions without a
\* ledger row, those below the highest applied version included; an Up
\* that returns nil has inserted the row of each of them, so that every
\* Source version with an up half has its row.
ThmC35 ==
    \A e \in active :
        LET st == eng[e] IN
        st.op = "Up" =>
            /\ Queries(st, "INSERT", TRUE) \subseteq PendingAtStart(st)
            /\ st.pc \in {"exec", "await", "record"} =>
                  Range(st.plan) = PendingAtStart(st)
            /\ (AtRest(st) /\ st.ret.err = NoErr) =>
                  /\ Queries(st, "INSERT", TRUE) = PendingAtStart(st)
                  /\ st.ret.n = Cardinality(PendingAtStart(st))
                  /\ \A v \in SourceVersions : HasUp(v) => v \in ledger

\* C35 witness: an Up that returned nil has applied a version below the
\* highest version the ledger held when it began.
WitC35 ==
    \E e \in active, v \in Versions, w \in Versions :
        /\ AtRest(eng[e]) /\ eng[e].op = "Up" /\ eng[e].ret.err = NoErr
        /\ v \in Queries(eng[e], "INSERT", TRUE)
        /\ w \in eng[e].start /\ v < w

\* C36 as stated, its last part: from some point on every Up returns
\* (0, nil).  Violated: a transient failure may recur for ever, and an Up
\* that meets one returns its error.
CexC36 ==
    <>[](\A e \in active :
            (AtRest(eng[e]) /\ eng[e].op = "Up") =>
                eng[e].ret.n = 0 /\ eng[e].ret.err = NoErr)

\* C36: when every Source pair has an up half, one operator calls Up
\* again and again and no query fails for ever, then eventually, and from
\* then on for ever, the ledger holds exactly the Source versions (nothing
\* is pending); and every Up that begins with that ledger and meets no
\* failure of the driver returns (0, nil).
ThmC36 ==
    /\ <>[](ledger = SourceVersions)
    /\ [](\A e \in active :
             LET st == eng[e] IN
             (AtRest(st) /\ st.op = "Up" /\ st.start = SourceVersions /\ ~st.faulted)
                 => st.ret.n = 0 /\ st.ret.err = NoErr /\ ledger = st.start)

\* C36 witness: after an Up that failed at a statement, a later Up began
\* with every one of three Source versions in the ledger and returned
\* (0, nil).
WitC36 ==
    \E e \in active :
        /\ AtRest(eng[e]) /\ eng[e].op = "Up" /\ ~eng[e].faulted
        /\ eng[e].start = Versions /\ SourceVersions = Versions
        /\ eng[e].ret.n = 0 /\ eng[e].ret.err = NoErr

\* The call is one that reaches the pending version d: an Up, an UpTo with
\* a target of d or above, a Steps(n) with n above the number of pending
\* versions below d.
Reaches(st, d) ==
    \/ st.op = "Up"
    \/ st.op = "UpTo" /\ st.arg >= d
    \/ st.op = "Steps" /\ st.arg > Cardinality({w \in PendingAtStart(st) : w < d})

\* The Source pairs that hold a down half only.
DownOnly == {v \in Versions : source[v] = "down"}

\* C37: a Source pair d with only a down half never gets a ledger row;
\* Pending reports it; every Up, UpTo and Steps(n > 0) that reaches the
\* lowest such pair, no query failing, returns the MigrationError of d
\* wrapping ErrMissingUp after applying the pending versions below d; and
\* no statement of an up migration of d or of a higher version is ever
\* submitted and no such version ever gets a ledger row.
ThmC37 ==
    DownOnly # {} =>
        LET d == SetMin(DownOnly) IN
        /\ \A w \in Versions : w >= d => w \notin ledger
        /\ \A e \in active :
              LET st == eng[e] IN
              /\ \A x \in Range(st.log) :
                    ~(x.q \in {"DDL", "INSERT"} /\ x.dir = "up" /\ x.v >= d)
              /\ (AtRest(st) /\ st.op = "Pending" /\ ~st.faulted) =>
                    DownOnly \subseteq Range(st.ret.pending)
              /\ (AtRest(st) /\ UpCall(st) /\ ~st.faulted /\ Reaches(st, d)) =>
                    /\ st.ret.err = MigrationError(d, "up", 0, "ErrMissingUp")
                    /\ ledger = st.start \cup {w \in PendingAtStart(st) : w < d}

\* C37 witness: with version 2 a pair of a down half only, a later Up,
\* called after version 1 was applied, failed at version 2 again and left
\* version 3 pending.
WitC37 ==
    \E e \in active :
        /\ source[2] = "down" /\ source[1] = "up" /\ source[3] = "up"
        /\ AtRest(eng[e]) /\ eng[e].op = "Up" /\ eng[e].start = {1}
        /\ eng[e].ret.err = MigrationError(2, "up", 0, "ErrMissingUp")
        /\ ledger = {1}

\* C38: for every value of -n, the down subcommand submits no statement of
\* an up migration and no ledger insert, and the ledger during and after
\* it is a subset of the ledger before it.  Violated by `down -n -1`:
\* Steps(ctx, 1) applies the lowest pending version.
CexC38 ==
    \A e \in active :
        LET st == eng[e] IN
        st.cli = "down" =>
            /\ ledger \subseteq st.start
            /\ \A x \in Range(st.log) : x.q # "INSERT" /\ x.dir # "up"

\* The versions whose up file and down file both hold statements.
Runs == {v \in Versions : NumStatements(v, "up") > 0 /\ NumStatements(v, "down") > 0}
\* Ledger and schema agree on v: a row exactly when up statements ran last.
Agree(v) == schema[v] # "" => (v \in ledger <=> schema[v] = "up")

Wanted(src, v, d) ==
    IF v \notin DOMAIN src.migrations \/ d \notin {"up", "down"} THEN NoMigration
    ELSE IF d = "up" THEN src.migrations[v].up ELSE src.migrations[v].down

\* C40: readMigrationContent never panics; for an unknown version, a
\* missing half, a file that cannot be opened or read, and a direction that
\* is neither Up nor Down it returns a non-nil error and no content; and
\* whenever the Source handed it a reader, the reader is closed when it
\* returns.  Violated by a direction that is neither Up nor Down.
CexC40 ==
    (Returned /\ result.step = "content") =>
        LET c == result.read
            half == Wanted(result.fs, c.arg, c.dir) IN
        /\ ~c.ret.panicked
        /\ (half = NoMigration \/ ~c.opened \/ ~c.readable)
               => (c.ret.ret.err # NilError /\ c.ret.content = NoContent)
        /\ (half # NoMigration /\ c.opened) => c.ret.closed

====
